---- MODULE Spec2Model ----
(***************************************************************************)
(* Model of the defense news feed scoring pipeline (src/main.py): the      *)
(* tiered keyword scanner, the composite-score combiner, the SAM.gov       *)
(* opportunity fetch with de-duplication, the per-item scoring loops and   *)
(* the run log.                                                            *)
(*                                                                         *)
(* Representation.  A Python str is a sequence of one-character strings,   *)
(* so that the regular-expression search of scan_keywords is computed      *)
(* character by character.  A float with one decimal (keyword_score) is    *)
(* the integer number of tenths: 8.3 is 83, 10 is 100.                     *)
(***************************************************************************)
EXTENDS Integers, Sequences, FiniteSets, TLC

(***************************************************************************)
(* Configuration (src/main.py lines 22-77).                                *)
(***************************************************************************)
ENTRIES_PER_FEED == 3

RELEVANCE_THRESHOLD == 4

TITLE_MULTIPLIER == 2

\* The dict KEYWORD_TIERS in insertion order (the order .items() yields).
KEYWORD_TIERS == <<
    [keyword |-> <<"A", "n", "d", "u", "r", "i", "l">>, weight |-> 3],
    [keyword |-> <<"J", "o", "n", "e", "s", " ", "A", "c", "t">>, weight |-> 3],
    [keyword |-> <<"S", "e", "c", "t", "i", "o", "n", " ", "2", "7">>, weight |-> 3],
    [keyword |-> <<"S", "e", "a", "l", "i", "f", "t">>, weight |-> 3],
    [keyword |-> <<"M", "a", "r", "i", "t", "i", "m", "e", " ", "A", "u", "t", "o", "n", "o", "m", "y">>, weight |-> 3],
    [keyword |-> <<"D", "i", "v", "e", "-", "L", "D">>, weight |-> 3],
    [keyword |-> <<"G", "h", "o", "s", "t", " ", "S", "h", "a", "r", "k">>, weight |-> 3],
    [keyword |-> <<"S", "a", "r", "o", "n", "i", "c">>, weight |-> 3],
    [keyword |-> <<"S", "a", "i", "l", "d", "r", "o", "n", "e">>, weight |-> 3],
    [keyword |-> <<"S", "h", "i", "e", "l", "d", " ", "A", "I">>, weight |-> 3],
    [keyword |-> <<"P", "a", "l", "a", "n", "t", "i", "r">>, weight |-> 3],
    [keyword |-> <<"R", "e", "p", "l", "i", "c", "a", "t", "o", "r", " ", "I", "n", "i", "t", "i", "a", "t", "i", "v", "e">>, weight |-> 3],
    [keyword |-> <<"M", "a", "r", "i", "t", "i", "m", "e", " ", "A", "c", "t", "i", "o", "n", " ", "P", "l", "a", "n">>, weight |-> 3],
    [keyword |-> <<"M", "A", "P">>, weight |-> 3],
    [keyword |-> <<"U", "S", "V">>, weight |-> 3],
    [keyword |-> <<"U", "U", "V">>, weight |-> 3],
    [keyword |-> <<"C", "C", "A">>, weight |-> 3],
    [keyword |-> <<"M", "A", "S", "C">>, weight |-> 3],
    [keyword |-> <<"L", "a", "t", "t", "i", "c", "e", " ", "O", "S">>, weight |-> 3],
    [keyword |-> <<"H", "i", "v", "e", "m", "i", "n", "d">>, weight |-> 3],
    [keyword |-> <<"H", "e", "d", "g", "e", " ", "S", "t", "r", "a", "t", "e", "g", "y">>, weight |-> 3],
    [keyword |-> <<"M", "S", "C">>, weight |-> 2],
    [keyword |-> <<"u", "n", "m", "a", "n", "n", "e", "d", " ", "s", "y", "s", "t", "e", "m", "s">>, weight |-> 2],
    [keyword |-> <<"d", "e", "f", "e", "n", "s", "e", " ", "A", "I">>, weight |-> 2],
    [keyword |-> <<"a", "u", "t", "o", "n", "o", "m", "o", "u", "s", " ", "v", "e", "s", "s", "e", "l", "s">>, weight |-> 2],
    [keyword |-> <<"M", "a", "r", "i", "t", "i", "m", "e", " ", "D", "o", "m", "a", "i", "n", " ", "A", "w", "a", "r", "e", "n", "e", "s", "s">>, weight |-> 2],
    [keyword |-> <<"M", "D", "A">>, weight |-> 2],
    [keyword |-> <<"A", "t", "t", "r", "i", "t", "a", "b", "l", "e">>, weight |-> 2],
    [keyword |-> <<"L", "o", "w", "-", "c", "o", "s", "t">>, weight |-> 2],
    [keyword |-> <<"D", "I", "U">>, weight |-> 2],
    [keyword |-> <<"D", "e", "f", "e", "n", "s", "e", " ", "I", "n", "n", "o", "v", "a", "t", "i", "o", "n", " ", "U", "n", "i", "t">>, weight |-> 2],
    [keyword |-> <<"D", "i", "s", "t", "r", "i", "b", "u", "t", "e", "d", " ", "M", "a", "r", "i", "t", "i", "m", "e", " ", "O", "p", "e", "r", "a", "t", "i", "o", "n", "s">>, weight |-> 2],
    [keyword |-> <<"D", "M", "O">>, weight |-> 2],
    [keyword |-> <<"P", "h", "y", "s", "i", "c", "a", "l", " ", "A", "I">>, weight |-> 2],
    [keyword |-> <<"A", "u", "t", "o", "n", "o", "m", "o", "u", "s", " ", "W", "e", "l", "d", "i", "n", "g">>, weight |-> 2],
    [keyword |-> <<"I", "S", "R">>, weight |-> 2],
    [keyword |-> <<"I", "n", "t", "e", "l", "l", "i", "g", "e", "n", "c", "e", ",", " ", "S", "u", "r", "v", "e", "i", "l", "l", "a", "n", "c", "e", ",", " ", "R", "e", "c", "o", "n", "n", "a", "i", "s", "s", "a", "n", "c", "e">>, weight |-> 2],
    [keyword |-> <<"a", "u", "t", "o", "n", "o", "m", "o", "u", "s">>, weight |-> 1],
    [keyword |-> <<"s", "e", "m", "i", "-", "a", "u", "t", "o", "n", "o", "m", "o", "u", "s">>, weight |-> 1],
    [keyword |-> <<"n", "a", "v", "a", "l">>, weight |-> 1],
    [keyword |-> <<"C", "o", "a", "s", "t", " ", "G", "u", "a", "r", "d">>, weight |-> 1],
    [keyword |-> <<"s", "h", "i", "p", "b", "u", "i", "l", "d", "i", "n", "g">>, weight |-> 1],
    [keyword |-> <<"s", "h", "i", "p", "y", "a", "r", "d">>, weight |-> 1],
    [keyword |-> <<"r", "e", "a", "d", "i", "n", "e", "s", "s">>, weight |-> 1],
    [keyword |-> <<"d", "u", "a", "l", "-", "u", "s", "e">>, weight |-> 1],
    [keyword |-> <<"s", "u", "p", "p", "l", "y", " ", "c", "h", "a", "i", "n">>, weight |-> 1]
>>

(***************************************************************************)
(* Characters: what re's \b and re.IGNORECASE see.                         *)
(***************************************************************************)
LowerCaseLetters == {"a", "b", "c", "d", "e", "f", "g", "h", "i", "j", "k", "l", "m", "n", "o", "p", "q", "r", "s", "t", "u", "v", "w", "x", "y", "z"}

UpperCaseLetters == {"A", "B", "C", "D", "E", "F", "G", "H", "I", "J", "K", "L", "M", "N", "O", "P", "Q", "R", "S", "T", "U", "V", "W", "X", "Y", "Z"}

Digits == {"0", "1", "2", "3", "4", "5", "6", "7", "8", "9"}

\* A character of a text is a one-character string when it is a printable
\* ASCII character (space to tilde; the grave accent, which a string of this
\* language cannot hold, is "U+0060"), and the string "U+XXXX" of its code
\* point in hexadecimal otherwise.
PrintableAscii == <<
    " ", "!", "\"", "#", "$", "%", "&", "'", "(", ")", "*", "+", ",", "-", ".", "/",
    "0", "1", "2", "3", "4", "5", "6", "7", "8", "9", ":", ";", "<", "=", ">", "?",
    "@", "A", "B", "C", "D", "E", "F", "G", "H", "I", "J", "K", "L", "M", "N", "O",
    "P", "Q", "R", "S", "T", "U", "V", "W", "X", "Y", "Z", "[", "\\", "]", "^", "_",
    "U+0060", "a", "b", "c", "d", "e", "f", "g", "h", "i", "j", "k", "l", "m", "n", "o",
    "p", "q", "r", "s", "t", "u", "v", "w", "x", "y", "z", "{", "|", "}", "~"
>>

HexDigits == <<"0", "1", "2", "3", "4", "5", "6", "7", "8", "9", "A", "B", "C", "D", "E", "F">>

\* The code point in hexadecimal, in at least width digits.
RECURSIVE Hex(_, _)
Hex(n, width) ==
    IF width <= 0 /\ n = 0 THEN ""
    ELSE Hex(n \div 16, width - 1) \o HexDigits[(n % 16) + 1]

\* The character with the code point.
Chr(n) == IF n \in 32..126 THEN PrintableAscii[n - 31] ELSE "U+" \o Hex(n, 4)

\* The code points outside ASCII that \w of a str pattern matches (letters,
\* digits, numerics and the like of Unicode 14.0, the tables of the
\* interpreter's unicodedata), as ranges first..last.
WordRanges == <<
    <<170, 170>>, <<178, 179>>, <<181, 181>>, <<185, 186>>, <<188, 190>>, <<192, 214>>,
    <<216, 246>>, <<248, 705>>, <<710, 721>>, <<736, 740>>, <<748, 748>>, <<750, 750>>,
    <<880, 884>>, <<886, 887>>, <<890, 893>>, <<895, 895>>, <<902, 902>>, <<904, 906>>,
    <<908, 908>>, <<910, 929>>, <<931, 1013>>, <<1015, 1153>>, <<1162, 1327>>, <<1329, 1366>>,
    <<1369, 1369>>, <<1376, 1416>>, <<1488, 1514>>, <<1519, 1522>>, <<1568, 1610>>, <<1632, 1641>>,
    <<1646, 1647>>, <<1649, 1747>>, <<1749, 1749>>, <<1765, 1766>>, <<1774, 1788>>, <<1791, 1791>>,
    <<1808, 1808>>, <<1810, 1839>>, <<1869, 1957>>, <<1969, 1969>>, <<1984, 2026>>, <<2036, 2037>>,
    <<2042, 2042>>, <<2048, 2069>>, <<2074, 2074>>, <<2084, 2084>>, <<2088, 2088>>, <<2112, 2136>>,
    <<2144, 2154>>, <<2160, 2183>>, <<2185, 2190>>, <<2208, 2249>>, <<2308, 2361>>, <<2365, 2365>>,
    <<2384, 2384>>, <<2392, 2401>>, <<2406, 2415>>, <<2417, 2432>>, <<2437, 2444>>, <<2447, 2448>>,
    <<2451, 2472>>, <<2474, 2480>>, <<2482, 2482>>, <<2486, 2489>>, <<2493, 2493>>, <<2510, 2510>>,
    <<2524, 2525>>, <<2527, 2529>>, <<2534, 2545>>, <<2548, 2553>>, <<2556, 2556>>, <<2565, 2570>>,
    <<2575, 2576>>, <<2579, 2600>>, <<2602, 2608>>, <<2610, 2611>>, <<2613, 2614>>, <<2616, 2617>>,
    <<2649, 2652>>, <<2654, 2654>>, <<2662, 2671>>, <<2674, 2676>>, <<2693, 2701>>, <<2703, 2705>>,
    <<2707, 2728>>, <<2730, 2736>>, <<2738, 2739>>, <<2741, 2745>>, <<2749, 2749>>, <<2768, 2768>>,
    <<2784, 2785>>, <<2790, 2799>>, <<2809, 2809>>, <<2821, 2828>>, <<2831, 2832>>, <<2835, 2856>>,
    <<2858, 2864>>, <<2866, 2867>>, <<2869, 2873>>, <<2877, 2877>>, <<2908, 2909>>, <<2911, 2913>>,
    <<2918, 2927>>, <<2929, 2935>>, <<2947, 2947>>, <<2949, 2954>>, <<2958, 2960>>, <<2962, 2965>>,
    <<2969, 2970>>, <<2972, 2972>>, <<2974, 2975>>, <<2979, 2980>>, <<2984, 2986>>, <<2990, 3001>>,
    <<3024, 3024>>, <<3046, 3058>>, <<3077, 3084>>, <<3086, 3088>>, <<3090, 3112>>, <<3114, 3129>>,
    <<3133, 3133>>, <<3160, 3162>>, <<3165, 3165>>, <<3168, 3169>>, <<3174, 3183>>, <<3192, 3198>>,
    <<3200, 3200>>, <<3205, 3212>>, <<3214, 3216>>, <<3218, 3240>>, <<3242, 3251>>, <<3253, 3257>>,
    <<3261, 3261>>, <<3293, 3294>>, <<3296, 3297>>, <<3302, 3311>>, <<3313, 3314>>, <<3332, 3340>>,
    <<3342, 3344>>, <<3346, 3386>>, <<3389, 3389>>, <<3406, 3406>>, <<3412, 3414>>, <<3416, 3425>>,
    <<3430, 3448>>, <<3450, 3455>>, <<3461, 3478>>, <<3482, 3505>>, <<3507, 3515>>, <<3517, 3517>>,
    <<3520, 3526>>, <<3558, 3567>>, <<3585, 3632>>, <<3634, 3635>>, <<3648, 3654>>, <<3664, 3673>>,
    <<3713, 3714>>, <<3716, 3716>>, <<3718, 3722>>, <<3724, 3747>>, <<3749, 3749>>, <<3751, 3760>>,
    <<3762, 3763>>, <<3773, 3773>>, <<3776, 3780>>, <<3782, 3782>>, <<3792, 3801>>, <<3804, 3807>>,
    <<3840, 3840>>, <<3872, 3891>>, <<3904, 3911>>, <<3913, 3948>>, <<3976, 3980>>, <<4096, 4138>>,
    <<4159, 4169>>, <<4176, 4181>>, <<4186, 4189>>, <<4193, 4193>>, <<4197, 4198>>, <<4206, 4208>>,
    <<4213, 4225>>, <<4238, 4238>>, <<4240, 4249>>, <<4256, 4293>>, <<4295, 4295>>, <<4301, 4301>>,
    <<4304, 4346>>, <<4348, 4680>>, <<4682, 4685>>, <<4688, 4694>>, <<4696, 4696>>, <<4698, 4701>>,
    <<4704, 4744>>, <<4746, 4749>>, <<4752, 4784>>, <<4786, 4789>>, <<4792, 4798>>, <<4800, 4800>>,
    <<4802, 4805>>, <<4808, 4822>>, <<4824, 4880>>, <<4882, 4885>>, <<4888, 4954>>, <<4969, 4988>>,
    <<4992, 5007>>, <<5024, 5109>>, <<5112, 5117>>, <<5121, 5740>>, <<5743, 5759>>, <<5761, 5786>>,
    <<5792, 5866>>, <<5870, 5880>>, <<5888, 5905>>, <<5919, 5937>>, <<5952, 5969>>, <<5984, 5996>>,
    <<5998, 6000>>, <<6016, 6067>>, <<6103, 6103>>, <<6108, 6108>>, <<6112, 6121>>, <<6128, 6137>>,
    <<6160, 6169>>, <<6176, 6264>>, <<6272, 6276>>, <<6279, 6312>>, <<6314, 6314>>, <<6320, 6389>>,
    <<6400, 6430>>, <<6470, 6509>>, <<6512, 6516>>, <<6528, 6571>>, <<6576, 6601>>, <<6608, 6618>>,
    <<6656, 6678>>, <<6688, 6740>>, <<6784, 6793>>, <<6800, 6809>>, <<6823, 6823>>, <<6917, 6963>>,
    <<6981, 6988>>, <<6992, 7001>>, <<7043, 7072>>, <<7086, 7141>>, <<7168, 7203>>, <<7232, 7241>>,
    <<7245, 7293>>, <<7296, 7304>>, <<7312, 7354>>, <<7357, 7359>>, <<7401, 7404>>, <<7406, 7411>>,
    <<7413, 7414>>, <<7418, 7418>>, <<7424, 7615>>, <<7680, 7957>>, <<7960, 7965>>, <<7968, 8005>>,
    <<8008, 8013>>, <<8016, 8023>>, <<8025, 8025>>, <<8027, 8027>>, <<8029, 8029>>, <<8031, 8061>>,
    <<8064, 8116>>, <<8118, 8124>>, <<8126, 8126>>, <<8130, 8132>>, <<8134, 8140>>, <<8144, 8147>>,
    <<8150, 8155>>, <<8160, 8172>>, <<8178, 8180>>, <<8182, 8188>>, <<8304, 8305>>, <<8308, 8313>>,
    <<8319, 8329>>, <<8336, 8348>>, <<8450, 8450>>, <<8455, 8455>>, <<8458, 8467>>, <<8469, 8469>>,
    <<8473, 8477>>, <<8484, 8484>>, <<8486, 8486>>, <<8488, 8488>>, <<8490, 8493>>, <<8495, 8505>>,
    <<8508, 8511>>, <<8517, 8521>>, <<8526, 8526>>, <<8528, 8585>>, <<9312, 9371>>, <<9450, 9471>>,
    <<10102, 10131>>, <<11264, 11492>>, <<11499, 11502>>, <<11506, 11507>>, <<11517, 11517>>, <<11520, 11557>>,
    <<11559, 11559>>, <<11565, 11565>>, <<11568, 11623>>, <<11631, 11631>>, <<11648, 11670>>, <<11680, 11686>>,
    <<11688, 11694>>, <<11696, 11702>>, <<11704, 11710>>, <<11712, 11718>>, <<11720, 11726>>, <<11728, 11734>>,
    <<11736, 11742>>, <<11823, 11823>>, <<12293, 12295>>, <<12321, 12329>>, <<12337, 12341>>, <<12344, 12348>>,
    <<12353, 12438>>, <<12445, 12447>>, <<12449, 12538>>, <<12540, 12543>>, <<12549, 12591>>, <<12593, 12686>>,
    <<12690, 12693>>, <<12704, 12735>>, <<12784, 12799>>, <<12832, 12841>>, <<12872, 12879>>, <<12881, 12895>>,
    <<12928, 12937>>, <<12977, 12991>>, <<13312, 19903>>, <<19968, 42124>>, <<42192, 42237>>, <<42240, 42508>>,
    <<42512, 42539>>, <<42560, 42606>>, <<42623, 42653>>, <<42656, 42735>>, <<42775, 42783>>, <<42786, 42888>>,
    <<42891, 42954>>, <<42960, 42961>>, <<42963, 42963>>, <<42965, 42969>>, <<42994, 43009>>, <<43011, 43013>>,
    <<43015, 43018>>, <<43020, 43042>>, <<43056, 43061>>, <<43072, 43123>>, <<43138, 43187>>, <<43216, 43225>>,
    <<43250, 43255>>, <<43259, 43259>>, <<43261, 43262>>, <<43264, 43301>>, <<43312, 43334>>, <<43360, 43388>>,
    <<43396, 43442>>, <<43471, 43481>>, <<43488, 43492>>, <<43494, 43518>>, <<43520, 43560>>, <<43584, 43586>>,
    <<43588, 43595>>, <<43600, 43609>>, <<43616, 43638>>, <<43642, 43642>>, <<43646, 43695>>, <<43697, 43697>>,
    <<43701, 43702>>, <<43705, 43709>>, <<43712, 43712>>, <<43714, 43714>>, <<43739, 43741>>, <<43744, 43754>>,
    <<43762, 43764>>, <<43777, 43782>>, <<43785, 43790>>, <<43793, 43798>>, <<43808, 43814>>, <<43816, 43822>>,
    <<43824, 43866>>, <<43868, 43881>>, <<43888, 44002>>, <<44016, 44025>>, <<44032, 55203>>, <<55216, 55238>>,
    <<55243, 55291>>, <<63744, 64109>>, <<64112, 64217>>, <<64256, 64262>>, <<64275, 64279>>, <<64285, 64285>>,
    <<64287, 64296>>, <<64298, 64310>>, <<64312, 64316>>, <<64318, 64318>>, <<64320, 64321>>, <<64323, 64324>>,
    <<64326, 64433>>, <<64467, 64829>>, <<64848, 64911>>, <<64914, 64967>>, <<65008, 65019>>, <<65136, 65140>>,
    <<65142, 65276>>, <<65296, 65305>>, <<65313, 65338>>, <<65345, 65370>>, <<65382, 65470>>, <<65474, 65479>>,
    <<65482, 65487>>, <<65490, 65495>>, <<65498, 65500>>, <<65536, 65547>>, <<65549, 65574>>, <<65576, 65594>>,
    <<65596, 65597>>, <<65599, 65613>>, <<65616, 65629>>, <<65664, 65786>>, <<65799, 65843>>, <<65856, 65912>>,
    <<65930, 65931>>, <<66176, 66204>>, <<66208, 66256>>, <<66273, 66299>>, <<66304, 66339>>, <<66349, 66378>>,
    <<66384, 66421>>, <<66432, 66461>>, <<66464, 66499>>, <<66504, 66511>>, <<66513, 66517>>, <<66560, 66717>>,
    <<66720, 66729>>, <<66736, 66771>>, <<66776, 66811>>, <<66816, 66855>>, <<66864, 66915>>, <<66928, 66938>>,
    <<66940, 66954>>, <<66956, 66962>>, <<66964, 66965>>, <<66967, 66977>>, <<66979, 66993>>, <<66995, 67001>>,
    <<67003, 67004>>, <<67072, 67382>>, <<67392, 67413>>, <<67424, 67431>>, <<67456, 67461>>, <<67463, 67504>>,
    <<67506, 67514>>, <<67584, 67589>>, <<67592, 67592>>, <<67594, 67637>>, <<67639, 67640>>, <<67644, 67644>>,
    <<67647, 67669>>, <<67672, 67702>>, <<67705, 67742>>, <<67751, 67759>>, <<67808, 67826>>, <<67828, 67829>>,
    <<67835, 67867>>, <<67872, 67897>>, <<67968, 68023>>, <<68028, 68047>>, <<68050, 68096>>, <<68112, 68115>>,
    <<68117, 68119>>, <<68121, 68149>>, <<68160, 68168>>, <<68192, 68222>>, <<68224, 68255>>, <<68288, 68295>>,
    <<68297, 68324>>, <<68331, 68335>>, <<68352, 68405>>, <<68416, 68437>>, <<68440, 68466>>, <<68472, 68497>>,
    <<68521, 68527>>, <<68608, 68680>>, <<68736, 68786>>, <<68800, 68850>>, <<68858, 68899>>, <<68912, 68921>>,
    <<69216, 69246>>, <<69248, 69289>>, <<69296, 69297>>, <<69376, 69415>>, <<69424, 69445>>, <<69457, 69460>>,
    <<69488, 69505>>, <<69552, 69579>>, <<69600, 69622>>, <<69635, 69687>>, <<69714, 69743>>, <<69745, 69746>>,
    <<69749, 69749>>, <<69763, 69807>>, <<69840, 69864>>, <<69872, 69881>>, <<69891, 69926>>, <<69942, 69951>>,
    <<69956, 69956>>, <<69959, 69959>>, <<69968, 70002>>, <<70006, 70006>>, <<70019, 70066>>, <<70081, 70084>>,
    <<70096, 70106>>, <<70108, 70108>>, <<70113, 70132>>, <<70144, 70161>>, <<70163, 70187>>, <<70272, 70278>>,
    <<70280, 70280>>, <<70282, 70285>>, <<70287, 70301>>, <<70303, 70312>>, <<70320, 70366>>, <<70384, 70393>>,
    <<70405, 70412>>, <<70415, 70416>>, <<70419, 70440>>, <<70442, 70448>>, <<70450, 70451>>, <<70453, 70457>>,
    <<70461, 70461>>, <<70480, 70480>>, <<70493, 70497>>, <<70656, 70708>>, <<70727, 70730>>, <<70736, 70745>>,
    <<70751, 70753>>, <<70784, 70831>>, <<70852, 70853>>, <<70855, 70855>>, <<70864, 70873>>, <<71040, 71086>>,
    <<71128, 71131>>, <<71168, 71215>>, <<71236, 71236>>, <<71248, 71257>>, <<71296, 71338>>, <<71352, 71352>>,
    <<71360, 71369>>, <<71424, 71450>>, <<71472, 71483>>, <<71488, 71494>>, <<71680, 71723>>, <<71840, 71922>>,
    <<71935, 71942>>, <<71945, 71945>>, <<71948, 71955>>, <<71957, 71958>>, <<71960, 71983>>, <<71999, 71999>>,
    <<72001, 72001>>, <<72016, 72025>>, <<72096, 72103>>, <<72106, 72144>>, <<72161, 72161>>, <<72163, 72163>>,
    <<72192, 72192>>, <<72203, 72242>>, <<72250, 72250>>, <<72272, 72272>>, <<72284, 72329>>, <<72349, 72349>>,
    <<72368, 72440>>, <<72704, 72712>>, <<72714, 72750>>, <<72768, 72768>>, <<72784, 72812>>, <<72818, 72847>>,
    <<72960, 72966>>, <<72968, 72969>>, <<72971, 73008>>, <<73030, 73030>>, <<73040, 73049>>, <<73056, 73061>>,
    <<73063, 73064>>, <<73066, 73097>>, <<73112, 73112>>, <<73120, 73129>>, <<73440, 73458>>, <<73648, 73648>>,
    <<73664, 73684>>, <<73728, 74649>>, <<74752, 74862>>, <<74880, 75075>>, <<77712, 77808>>, <<77824, 78894>>,
    <<82944, 83526>>, <<92160, 92728>>, <<92736, 92766>>, <<92768, 92777>>, <<92784, 92862>>, <<92864, 92873>>,
    <<92880, 92909>>, <<92928, 92975>>, <<92992, 92995>>, <<93008, 93017>>, <<93019, 93025>>, <<93027, 93047>>,
    <<93053, 93071>>, <<93760, 93846>>, <<93952, 94026>>, <<94032, 94032>>, <<94099, 94111>>, <<94176, 94177>>,
    <<94179, 94179>>, <<94208, 100343>>, <<100352, 101589>>, <<101632, 101640>>, <<110576, 110579>>, <<110581, 110587>>,
    <<110589, 110590>>, <<110592, 110882>>, <<110928, 110930>>, <<110948, 110951>>, <<110960, 111355>>, <<113664, 113770>>,
    <<113776, 113788>>, <<113792, 113800>>, <<113808, 113817>>, <<119520, 119539>>, <<119648, 119672>>, <<119808, 119892>>,
    <<119894, 119964>>, <<119966, 119967>>, <<119970, 119970>>, <<119973, 119974>>, <<119977, 119980>>, <<119982, 119993>>,
    <<119995, 119995>>, <<119997, 120003>>, <<120005, 120069>>, <<120071, 120074>>, <<120077, 120084>>, <<120086, 120092>>,
    <<120094, 120121>>, <<120123, 120126>>, <<120128, 120132>>, <<120134, 120134>>, <<120138, 120144>>, <<120146, 120485>>,
    <<120488, 120512>>, <<120514, 120538>>, <<120540, 120570>>, <<120572, 120596>>, <<120598, 120628>>, <<120630, 120654>>,
    <<120656, 120686>>, <<120688, 120712>>, <<120714, 120744>>, <<120746, 120770>>, <<120772, 120779>>, <<120782, 120831>>,
    <<122624, 122654>>, <<123136, 123180>>, <<123191, 123197>>, <<123200, 123209>>, <<123214, 123214>>, <<123536, 123565>>,
    <<123584, 123627>>, <<123632, 123641>>, <<124896, 124902>>, <<124904, 124907>>, <<124909, 124910>>, <<124912, 124926>>,
    <<124928, 125124>>, <<125127, 125135>>, <<125184, 125251>>, <<125259, 125259>>, <<125264, 125273>>, <<126065, 126123>>,
    <<126125, 126127>>, <<126129, 126132>>, <<126209, 126253>>, <<126255, 126269>>, <<126464, 126467>>, <<126469, 126495>>,
    <<126497, 126498>>, <<126500, 126500>>, <<126503, 126503>>, <<126505, 126514>>, <<126516, 126519>>, <<126521, 126521>>,
    <<126523, 126523>>, <<126530, 126530>>, <<126535, 126535>>, <<126537, 126537>>, <<126539, 126539>>, <<126541, 126543>>,
    <<126545, 126546>>, <<126548, 126548>>, <<126551, 126551>>, <<126553, 126553>>, <<126555, 126555>>, <<126557, 126557>>,
    <<126559, 126559>>, <<126561, 126562>>, <<126564, 126564>>, <<126567, 126570>>, <<126572, 126578>>, <<126580, 126583>>,
    <<126585, 126588>>, <<126590, 126590>>, <<126592, 126601>>, <<126603, 126619>>, <<126625, 126627>>, <<126629, 126633>>,
    <<126635, 126651>>, <<127232, 127244>>, <<130032, 130041>>, <<131072, 173791>>, <<173824, 177976>>, <<177984, 178205>>,
    <<178208, 183969>>, <<183984, 191456>>, <<194560, 195101>>, <<196608, 201546>>
>>

\* The code points of these ranges.
WordCodes == UNION {WordRanges[i][1]..WordRanges[i][2] : i \in DOMAIN WordRanges}

\* The characters outside ASCII that \w of a str pattern matches.
NonAsciiWordChars == {Chr(n) : n \in WordCodes}

\* \w of a str pattern: ASCII letters, digits and underscore, and the word
\* characters outside ASCII.
WordChars ==
    LowerCaseLetters \cup UpperCaseLetters \cup Digits \cup {"_"} \cup NonAsciiWordChars

ToLower ==
    ("A" :> "a") @@ ("B" :> "b") @@ ("C" :> "c") @@ ("D" :> "d") @@ ("E" :> "e") @@ ("F" :> "f") @@
    ("G" :> "g") @@ ("H" :> "h") @@ ("I" :> "i") @@ ("J" :> "j") @@ ("K" :> "k") @@ ("L" :> "l") @@
    ("M" :> "m") @@ ("N" :> "n") @@ ("O" :> "o") @@ ("P" :> "p") @@ ("Q" :> "q") @@ ("R" :> "r") @@
    ("S" :> "s") @@ ("T" :> "t") @@ ("U" :> "u") @@ ("V" :> "v") @@ ("W" :> "w") @@ ("X" :> "x") @@
    ("Y" :> "y") @@ ("Z" :> "z")

\* The code points outside ASCII that re.IGNORECASE takes for another
\* character, as rules <<first, last, step, delta>>: every step-th code point
\* from first to last goes to the code point delta further, the one that
\* stands for its class (the smallest lower-case member): U+00C9 goes to
\* U+00E9, the long s U+017F to s, the Kelvin sign U+212A to k, the dotted
\* and the dotless i to i, the Greek mu to the micro sign U+00B5, U+0416 to
\* U+0436.
FoldRules == <<
    <<192, 214, 1, 32>>, <<216, 222, 1, 32>>, <<256, 302, 2, 1>>, <<304, 304, 1, -199>>,
    <<305, 305, 1, -200>>, <<306, 310, 2, 1>>, <<313, 327, 2, 1>>, <<330, 374, 2, 1>>,
    <<376, 376, 1, -121>>, <<377, 381, 2, 1>>, <<383, 383, 1, -268>>, <<385, 385, 1, 210>>,
    <<386, 388, 2, 1>>, <<390, 390, 1, 206>>, <<391, 391, 1, 1>>, <<393, 394, 1, 205>>,
    <<395, 395, 1, 1>>, <<398, 398, 1, 79>>, <<399, 399, 1, 202>>, <<400, 400, 1, 203>>,
    <<401, 401, 1, 1>>, <<403, 403, 1, 205>>, <<404, 404, 1, 207>>, <<406, 406, 1, 211>>,
    <<407, 407, 1, 209>>, <<408, 408, 1, 1>>, <<412, 412, 1, 211>>, <<413, 413, 1, 213>>,
    <<415, 415, 1, 214>>, <<416, 420, 2, 1>>, <<422, 422, 1, 218>>, <<423, 423, 1, 1>>,
    <<425, 425, 1, 218>>, <<428, 428, 1, 1>>, <<430, 430, 1, 218>>, <<431, 431, 1, 1>>,
    <<433, 434, 1, 217>>, <<435, 437, 2, 1>>, <<439, 439, 1, 219>>, <<440, 440, 1, 1>>,
    <<444, 444, 1, 1>>, <<452, 452, 1, 2>>, <<453, 453, 1, 1>>, <<455, 455, 1, 2>>,
    <<456, 456, 1, 1>>, <<458, 458, 1, 2>>, <<459, 475, 2, 1>>, <<478, 494, 2, 1>>,
    <<497, 497, 1, 2>>, <<498, 500, 2, 1>>, <<502, 502, 1, -97>>, <<503, 503, 1, -56>>,
    <<504, 542, 2, 1>>, <<544, 544, 1, -130>>, <<546, 562, 2, 1>>, <<570, 570, 1, 10795>>,
    <<571, 571, 1, 1>>, <<573, 573, 1, -163>>, <<574, 574, 1, 10792>>, <<577, 577, 1, 1>>,
    <<579, 579, 1, -195>>, <<580, 580, 1, 69>>, <<581, 581, 1, 71>>, <<582, 590, 2, 1>>,
    <<880, 882, 2, 1>>, <<886, 886, 1, 1>>, <<895, 895, 1, 116>>, <<902, 902, 1, 38>>,
    <<904, 906, 1, 37>>, <<908, 908, 1, 64>>, <<910, 911, 1, 63>>, <<913, 920, 1, 32>>,
    <<921, 921, 1, -84>>, <<922, 923, 1, 32>>, <<924, 924, 1, -743>>, <<925, 929, 1, 32>>,
    <<931, 931, 1, 31>>, <<932, 939, 1, 32>>, <<953, 953, 1, -116>>, <<956, 956, 1, -775>>,
    <<963, 963, 1, -1>>, <<975, 975, 1, 8>>, <<976, 976, 1, -30>>, <<977, 977, 1, -25>>,
    <<981, 981, 1, -15>>, <<982, 982, 1, -22>>, <<984, 1006, 2, 1>>, <<1008, 1008, 1, -54>>,
    <<1009, 1009, 1, -48>>, <<1012, 1012, 1, -60>>, <<1013, 1013, 1, -64>>, <<1015, 1015, 1, 1>>,
    <<1017, 1017, 1, -7>>, <<1018, 1018, 1, 1>>, <<1021, 1023, 1, -130>>, <<1024, 1039, 1, 80>>,
    <<1040, 1071, 1, 32>>, <<1120, 1152, 2, 1>>, <<1162, 1214, 2, 1>>, <<1216, 1216, 1, 15>>,
    <<1217, 1229, 2, 1>>, <<1232, 1326, 2, 1>>, <<1329, 1366, 1, 48>>, <<4256, 4293, 1, 7264>>,
    <<4295, 4295, 1, 7264>>, <<4301, 4301, 1, 7264>>, <<5024, 5103, 1, 38864>>, <<5104, 5109, 1, 8>>,
    <<7296, 7296, 1, -6222>>, <<7297, 7297, 1, -6221>>, <<7298, 7298, 1, -6212>>, <<7299, 7300, 1, -6210>>,
    <<7301, 7301, 1, -6211>>, <<7302, 7302, 1, -6204>>, <<7303, 7303, 1, -6180>>, <<7312, 7354, 1, -3008>>,
    <<7357, 7359, 1, -3008>>, <<7680, 7828, 2, 1>>, <<7835, 7835, 1, -58>>, <<7838, 7838, 1, -7615>>,
    <<7840, 7934, 2, 1>>, <<7944, 7951, 1, -8>>, <<7960, 7965, 1, -8>>, <<7976, 7983, 1, -8>>,
    <<7992, 7999, 1, -8>>, <<8008, 8013, 1, -8>>, <<8025, 8031, 2, -8>>, <<8040, 8047, 1, -8>>,
    <<8072, 8079, 1, -8>>, <<8088, 8095, 1, -8>>, <<8104, 8111, 1, -8>>, <<8120, 8121, 1, -8>>,
    <<8122, 8123, 1, -74>>, <<8124, 8124, 1, -9>>, <<8126, 8126, 1, -7289>>, <<8136, 8139, 1, -86>>,
    <<8140, 8140, 1, -9>>, <<8147, 8147, 1, -7235>>, <<8152, 8153, 1, -8>>, <<8154, 8155, 1, -100>>,
    <<8163, 8163, 1, -7219>>, <<8168, 8169, 1, -8>>, <<8170, 8171, 1, -112>>, <<8172, 8172, 1, -7>>,
    <<8184, 8185, 1, -128>>, <<8186, 8187, 1, -126>>, <<8188, 8188, 1, -9>>, <<8486, 8486, 1, -7517>>,
    <<8490, 8490, 1, -8383>>, <<8491, 8491, 1, -8262>>, <<8498, 8498, 1, 28>>, <<8544, 8559, 1, 16>>,
    <<8579, 8579, 1, 1>>, <<9398, 9423, 1, 26>>, <<11264, 11311, 1, 48>>, <<11360, 11360, 1, 1>>,
    <<11362, 11362, 1, -10743>>, <<11363, 11363, 1, -3814>>, <<11364, 11364, 1, -10727>>, <<11367, 11371, 2, 1>>,
    <<11373, 11373, 1, -10780>>, <<11374, 11374, 1, -10749>>, <<11375, 11375, 1, -10783>>, <<11376, 11376, 1, -10782>>,
    <<11378, 11378, 1, 1>>, <<11381, 11381, 1, 1>>, <<11390, 11391, 1, -10815>>, <<11392, 11490, 2, 1>>,
    <<11499, 11501, 2, 1>>, <<11506, 11506, 1, 1>>, <<42560, 42568, 2, 1>>, <<42570, 42570, 1, -35266>>,
    <<42571, 42571, 1, -35267>>, <<42572, 42604, 2, 1>>, <<42624, 42650, 2, 1>>, <<42786, 42798, 2, 1>>,
    <<42802, 42862, 2, 1>>, <<42873, 42875, 2, 1>>, <<42877, 42877, 1, -35332>>, <<42878, 42886, 2, 1>>,
    <<42891, 42891, 1, 1>>, <<42893, 42893, 1, -42280>>, <<42896, 42898, 2, 1>>, <<42902, 42920, 2, 1>>,
    <<42922, 42922, 1, -42308>>, <<42923, 42923, 1, -42319>>, <<42924, 42924, 1, -42315>>, <<42925, 42925, 1, -42305>>,
    <<42926, 42926, 1, -42308>>, <<42928, 42928, 1, -42258>>, <<42929, 42929, 1, -42282>>, <<42930, 42930, 1, -42261>>,
    <<42931, 42931, 1, 928>>, <<42932, 42946, 2, 1>>, <<42948, 42948, 1, -48>>, <<42949, 42949, 1, -42307>>,
    <<42950, 42950, 1, -35384>>, <<42951, 42953, 2, 1>>, <<42960, 42960, 1, 1>>, <<42966, 42968, 2, 1>>,
    <<42997, 42997, 1, 1>>, <<64262, 64262, 1, -1>>, <<65313, 65338, 1, 32>>, <<66560, 66599, 1, 40>>,
    <<66736, 66771, 1, 40>>, <<66928, 66938, 1, 39>>, <<66940, 66954, 1, 39>>, <<66956, 66962, 1, 39>>,
    <<66964, 66965, 1, 39>>, <<68736, 68786, 1, 64>>, <<71840, 71871, 1, 32>>, <<93760, 93791, 1, 32>>,
    <<125184, 125217, 1, 34>>
>>

\* The code points a rule applies to.
FoldCodes(rule) == {n \in rule[1]..rule[2] : (n - rule[1]) % rule[3] = 0}

\* The rule as a function from characters to characters.
FoldOfRule(rule) ==
    [c \in {Chr(n) : n \in FoldCodes(rule)} |->
        Chr((CHOOSE n \in FoldCodes(rule) : Chr(n) = c) + rule[4])]

\* The rules from the i-th to the j-th put together.
RECURSIVE FoldBetween(_, _)
FoldBetween(i, j) ==
    IF i = j THEN FoldOfRule(FoldRules[i])
    ELSE FoldBetween(i, (i + j) \div 2) @@ FoldBetween((i + j) \div 2 + 1, j)

\* The characters outside ASCII that re.IGNORECASE takes for another one,
\* each with the character that stands for its class.
UnicodeFold == FoldBetween(1, Len(FoldRules))

\* The characters it lists.
FoldedChars == DOMAIN UnicodeFold

\* re.IGNORECASE compares characters up to case.
CaseFold(c) ==
    IF c \in UpperCaseLetters THEN ToLower[c]
    ELSE IF c \in FoldedChars THEN UnicodeFold[c]
    ELSE c

\* Is the character at position i of text (if any) a word character?
IsWordAt(text, i) == i \in 1..Len(text) /\ text[i] \in WordChars

\* \b holds between positions i-1 and i: exactly one side is a word character
\* (the outside of the text counts as a non-word character).
WordBoundary(text, i) == IsWordAt(text, i - 1) # IsWordAt(text, i)

\* re.compile(r"\b" + re.escape(keyword) + r"\b", re.IGNORECASE).search(text):
\* the escaped keyword matches itself literally, up to case, at some position
\* with a word boundary on each side.
PatternSearch(keyword, text) ==
    \E p \in 1..(Len(text) - Len(keyword) + 1) :
        /\ \A i \in 1..Len(keyword) : CaseFold(text[p + i - 1]) = CaseFold(keyword[i])
        /\ WordBoundary(text, p)
        /\ WordBoundary(text, p + Len(keyword))

(***************************************************************************)
(* Arithmetic.                                                             *)
(***************************************************************************)
Min(a, b) == IF a <= b THEN a ELSE b

\* Python's round() of the rational num/den (den > 0) to an integer: to the
\* nearest, a tie to the even neighbour.
PyRound(num, den) ==
    LET q == num \div den
        r == num % den
    IN  IF 2 * r < den THEN q
        ELSE IF 2 * r > den THEN q + 1
        ELSE IF q % 2 = 0 THEN q ELSE q + 1

\* NormalizeScore without the min(10, ...) of line 151.
NormalizeScoreNoClamp(raw_points) == PyRound(raw_points * 100, 6)

\* round(min(10, raw_points / 6 * 10), 1), in tenths.
NormalizeScore(raw_points) ==
    IF raw_points * 10 >= 10 * 6 THEN 100 ELSE PyRound(raw_points * 100, 6)

(***************************************************************************)
(* scan_keywords (lines 118-152).                                          *)
(***************************************************************************)
MatchRecord(keyword, weight, location) ==
    [keyword |-> keyword, weight |-> weight, location |-> location]

\* ScanLoop with "if" in place of the "elif" of line 143: a keyword found in
\* the title is looked for in the snippet as well.
RECURSIVE ScanLoopBoth(_, _, _, _, _, _)
ScanLoopBoth(tiers, i, title, snippet, raw_points, matched_keywords) ==
    IF i > Len(tiers)
    THEN [raw_points |-> raw_points, matched_keywords |-> matched_keywords]
    ELSE LET keyword == tiers[i].keyword
             weight == tiers[i].weight
             in_title == PatternSearch(keyword, title)
             in_snippet == PatternSearch(keyword, snippet)
             title_match == IF in_title
                            THEN <<MatchRecord(keyword, weight, "title")>> ELSE <<>>
             snippet_match == IF in_snippet
                              THEN <<MatchRecord(keyword, weight, "snippet")>> ELSE <<>>
         IN  ScanLoopBoth(tiers, i + 1, title, snippet,
                          raw_points
                            + (IF in_title THEN weight * TITLE_MULTIPLIER ELSE 0)
                            + (IF in_snippet THEN weight ELSE 0),
                          matched_keywords \o title_match \o snippet_match)

\* The for loop over the (keyword, weight) items of the tier table, from
\* item i on, with the loop's two accumulators.
RECURSIVE ScanLoop(_, _, _, _, _, _)
ScanLoop(tiers, i, title, snippet, raw_points, matched_keywords) ==
    IF i > Len(tiers)
    THEN [raw_points |-> raw_points, matched_keywords |-> matched_keywords]
    ELSE LET keyword == tiers[i].keyword
             weight == tiers[i].weight
         IN  IF PatternSearch(keyword, title)
             THEN ScanLoop(tiers, i + 1, title, snippet,
                           raw_points + weight * TITLE_MULTIPLIER,
                           Append(matched_keywords, MatchRecord(keyword, weight, "title")))
             ELSE IF PatternSearch(keyword, snippet)
             THEN ScanLoop(tiers, i + 1, title, snippet,
                           raw_points + weight,
                           Append(matched_keywords, MatchRecord(keyword, weight, "snippet")))
             ELSE ScanLoop(tiers, i + 1, title, snippet, raw_points, matched_keywords)

\* The body of scan_keywords (lines 129-152) for a given tier table.
ScanWithTiers(tiers, title, snippet) ==
    LET loop == ScanLoop(tiers, 1, title, snippet, 0, <<>>)
    IN  [keyword_score |-> NormalizeScore(loop.raw_points),
         matched_keywords |-> loop.matched_keywords]

\* scan_keywords reads the module's KEYWORD_TIERS.
scan_keywords(title, snippet) == ScanWithTiers(KEYWORD_TIERS, title, snippet)

(***************************************************************************)
(* compute_composite_score (lines 155-163).  llm_score * 0.6 +             *)
(* keyword_score * 0.4 is (60 * llm_score + 4 * tenths) / 100: a multiple  *)
(* of 0.02, so never close enough to a tie for the float error of the      *)
(* products to change the rounding.                                        *)
(***************************************************************************)
\* compute_composite_score with the two weights exchanged.
CompositeWeightsSwapped(llm_score, keyword_score) ==
    Min(10, PyRound(40 * llm_score + 6 * keyword_score, 100))

\* compute_composite_score with the keyword term subtracted.
CompositeKeywordSubtracted(llm_score, keyword_score) ==
    Min(10, PyRound(60 * llm_score - 4 * keyword_score, 100))

\* compute_composite_score with a 70/30 split.
CompositeSeventyThirty(llm_score, keyword_score) ==
    Min(10, PyRound(70 * llm_score + 3 * keyword_score, 100))

compute_composite_score(llm_score, keyword_score) ==
    Min(10, PyRound(60 * llm_score + 4 * keyword_score, 100))

(***************************************************************************)
(* Dicts.  A Python dict with string keys is a function on its key set;    *)
(* d.get(k, default) and {**a, **b} follow.                                *)
(***************************************************************************)
Get(d, k, default) == IF k \in DOMAIN d THEN d[k] ELSE default

\* {**a, **b}: the keys of both, b's value where both have the key.
Merge(a, b) == b @@ a

EmptyDict == [k \in {} |-> 0]

(***************************************************************************)
(* Bounds of the model.                                                    *)
(***************************************************************************)
\* Items (feed entries kept by the [:ENTRIES_PER_FEED] slice plus raw
\* opportunities) the collaborators supply in one run.
MaxItems == 2

\* Words in the title and the snippet together, for the scanner on its own.
MaxWords == 2

\* The last reading of the clock, in ticks of half a second.
MaxClock == 2

(***************************************************************************)
(* The feeds (lines 79-97): categories in declaration order, each with its *)
(* feeds in list order.                                                    *)
(***************************************************************************)
RSS_FEEDS == <<
    [category |-> "Defense",
     feeds |-> <<"War on the Rocks", "Defense One - Tech", "Breaking Defense",
                 "Defense News", "USNI News">>],
    [category |-> "Maritime", feeds |-> <<"gCaptain", "Maritime Executive">>],
    [category |-> "Tech", feeds |-> <<"Wired Security">>],
    [category |-> "Government", feeds |-> <<"Federal News Network">>]
>>

\* The two searches of fetch_sam_opportunities (lines 178-199), by description.
SEARCHES == <<"Shipbuilding & Repair (NAICS 336611)", "Defense Tech Keywords">>

(***************************************************************************)
(* Inputs: what the collaborators may return.                              *)
(***************************************************************************)
\* (title, snippet) of feed entries: keyword scores 10, 0 and 8.3.
ArticleTexts == <<
    [title |-> <<"A", "n", "d", "u", "r", "i", "l", " ", "u", "n", "v", "e", "i", "l", "s", " ", "n", "e", "w", " ", "U", "S", "V">>,
     snippet |-> <<>>],
    [title |-> <<"M", "S", "C", "e", "l", "l", "a", "n", "e", "o", "u", "s", " ", "n", "o", "t", "e", "s">>,
     snippet |-> <<"B", "u", "d", "g", "e", "t", " ", "t", "a", "l", "k", "s">>],
    [title |-> <<"N", "a", "v", "a", "l", " ", "u", "p", "d", "a", "t", "e">>,
     snippet |-> <<"U", "S", "V", " ", "t", "r", "i", "a", "l", "s">>]
>>

\* Number of the feed at (c, f), counting feeds in loop order from 1.
RECURSIVE FeedsBefore(_)
FeedsBefore(c) == IF c <= 1 THEN 0 ELSE FeedsBefore(c - 1) + Len(RSS_FEEDS[c - 1].feeds)

FeedNumber(c, f) == FeedsBefore(c) + f

\* The i-th entry a feed serves: title, extracted text and link as the feed
\* reader yields them; the link names the feed and the position.
FeedEntry(c, f, i) ==
    LET text == ArticleTexts[((FeedNumber(c, f) + i) % Len(ArticleTexts)) + 1]
    IN  [title |-> text.title, snippet |-> text.snippet,
         link |-> <<RSS_FEEDS[c].feeds[f], i>>]

\* feedparser.parse(feed_url).entries: the first n entries the feed serves.
FeedEntries(c, f, n) == [i \in 1..n |-> FeedEntry(c, f, i)]

\* What analyze_article / analyze_sam_opportunity may return: None (the call
\* or the JSON parse raised, or the response was JSON null), or the value
\* json.loads yields: a dict with any of the keys the prompt asks for, or
\* another JSON value.
AnalysisNone == [kind |-> "None", value |-> EmptyDict]

AnalysisDict(d) == [kind |-> "dict", value |-> d]

AnalysisOther == [kind |-> "list", value |-> EmptyDict]

\* The scores tried: inside the rubric's 0-10 and, as nothing between
\* json.loads and the record checks the value, below and above it.
AnalyzerScores == {-5, 0, 3, 10, 15}

AnalysisResults ==
    {AnalysisNone, AnalysisOther, AnalysisDict(EmptyDict),
     AnalysisDict([summary |-> "Two sentences."]), AnalysisDict([score |-> 10])}
    \cup {AnalysisDict([score |-> s, summary |-> "Two sentences.", category |-> "Maritime"]) :
            s \in AnalyzerScores}

\* "analysis is None" in place of "not analysis".
TruthyUnlessNone(analysis) == analysis.kind # "None"

\* Python truth value of an analyzer result: None and {} are false, a
\* non-empty dict or list is true.
Truthy(analysis) ==
    CASE analysis.kind = "None" -> FALSE
      [] analysis.kind = "dict" -> DOMAIN analysis.value # {}
      [] OTHER -> TRUE

\* Raw listings of the opportunity source (the elements of opportunitiesData).
RawOpportunities == {
    [noticeId |-> "ABC123", title |-> <<"U", "S", "V", " ", "h", "u", "l", "l", " ", "r", "e", "p", "a", "i", "r">>,
     solicitationNumber |-> "N0001"],
    [noticeId |-> "ABC123", title |-> <<"J", "a", "n", "i", "t", "o", "r", "i", "a", "l", " ", "s", "e", "r", "v", "i", "c", "e", "s">>,
     solicitationNumber |-> "N0002"],
    [title |-> <<"S", "e", "a", "l", "i", "f", "t", " ", "s", "u", "p", "p", "o", "r", "t">>],
    [noticeId |-> "", title |-> <<"n", "a", "v", "a", "l", " ", "s", "t", "o", "r", "e", "s">>,
     solicitationNumber |-> "N0004"],
    [noticeId |-> "XYZ789", solicitationNumber |-> "N0005"]
}

Untitled == <<"U", "n", "t", "i", "t", "l", "e", "d">>

\* The calls of scan_keywords the pipeline can make on these inputs (lines
\* 441 and 477), and the function's value on each, computed once.
ScanInput(title, snippet) == [title |-> title, snippet |-> snippet]

ScanInputs ==
    {ScanInput(ArticleTexts[i].title, ArticleTexts[i].snippet) : i \in DOMAIN ArticleTexts}
    \cup {ScanInput(Get(opp, "title", Untitled), <<>>) : opp \in RawOpportunities}

ScanResults == [x \in ScanInputs |-> scan_keywords(x.title, x.snippet)]

\* Sequences over S of length at most n.
SeqsUpTo(S, n) == UNION {[1..k -> S] : k \in 0..n}

\* Words the scanner is tried on: a keyword, a keyword in another case and
\* with a long s (U+017F) for its S, a keyword inside a larger token that
\* ends in a letter outside ASCII (U+00E9), a hyphenated keyword that
\* contains another, the two halves of a two-word keyword, a keyword before
\* a comma.
Vocabulary == {
    <<"A", "n", "d", "u", "r", "i", "l">>,
    <<"u", "U+017F", "v">>,
    <<"U", "S", "V", "U+00E9">>,
    <<"s", "e", "m", "i", "-", "a", "u", "t", "o", "n", "o", "m", "o", "u", "s">>,
    <<"J", "o", "n", "e", "s">>,
    <<"A", "c", "t">>,
    <<"M", "S", "C", ",">>
}

\* The words of ws, separated by single spaces.
RECURSIVE JoinWords(_)
JoinWords(ws) ==
    IF ws = <<>> THEN <<>>
    ELSE IF Len(ws) = 1 THEN ws[1]
    ELSE ws[1] \o <<" ">> \o JoinWords(Tail(ws))

(***************************************************************************)
(* State.                                                                  *)
(***************************************************************************)
VARIABLES
    pc,                       \* where the script is
    sam_api_key,              \* line 17: is SAM_GOV_API_KEY set?
    cat_idx, feed_idx,        \* the two outer loops of phase 1 (lines 423, 425)
    entries, entry_idx,       \* feed.entries[:ENTRIES_PER_FEED] and the inner loop
    todays_top_picks,         \* line 419
    all_scored_articles,      \* line 420
    search_idx,               \* the loop of fetch_sam_opportunities (line 204)
    seen_ids, opportunities,  \* lines 201-202
    raw_opps, opp_idx,        \* line 469 and the loop of line 470
    scored_opportunities,     \* line 465
    all_scored_opportunities, \* line 466
    run_logs,                 \* the documents save_run_log has written
    clock,                    \* the last reading of datetime.now(), in ticks
    files,                    \* the output/ directory: path -> content
    email,                    \* what send_email was given and did
    analyzer_calls,           \* history: every analyzer call and its result
    sam_responses,            \* history: per search, the kind of response and its listings
    budget,                   \* items the collaborators may still supply
    call, ret                 \* a function called on its own: arguments, result

vars == <<pc, sam_api_key, cat_idx, feed_idx, entries, entry_idx, todays_top_picks,
          all_scored_articles, search_idx, seen_ids, opportunities, raw_opps,
          opp_idx, scored_opportunities, all_scored_opportunities, run_logs,
          clock, files, email, analyzer_calls, sam_responses, budget, call, ret>>

pipeline_vars == <<cat_idx, feed_idx, entries, entry_idx, todays_top_picks,
                   all_scored_articles, search_idx, seen_ids, opportunities, raw_opps,
                   opp_idx, scored_opportunities, all_scored_opportunities, run_logs,
                   clock, files, email, analyzer_calls, sam_responses, budget>>

NoEmail == [status |-> "none", articles |-> <<>>, opportunities |-> <<>>]

\* The script's variables as the interpreter reaches line 423.
InitPipeline ==
    /\ cat_idx = 1
    /\ feed_idx = 1
    /\ entries = <<>>
    /\ entry_idx = 0
    /\ todays_top_picks = <<>>
    /\ all_scored_articles = <<>>
    /\ search_idx = 0
    /\ seen_ids = {}
    /\ opportunities = <<>>
    /\ raw_opps = <<>>
    /\ opp_idx = 0
    /\ scored_opportunities = <<>>
    /\ all_scored_opportunities = <<>>
    /\ run_logs = <<>>
    /\ clock = 0
    /\ files = EmptyDict
    /\ email = NoEmail
    /\ analyzer_calls = <<>>
    /\ sam_responses = <<>>
    /\ budget = MaxItems

Init ==
    /\ pc = "parse"
    /\ sam_api_key \in BOOLEAN
    /\ InitPipeline
    /\ call = EmptyDict
    /\ ret = EmptyDict

(***************************************************************************)
(* Control flow of the script.                                             *)
(***************************************************************************)
\* Where control goes once phase 1 is over (lines 465-467, 496).
Phase2Entry ==
    IF sam_api_key
    THEN [pc |-> "sam_search", cat_idx |-> cat_idx, feed_idx |-> feed_idx]
    ELSE [pc |-> "save", cat_idx |-> cat_idx, feed_idx |-> feed_idx]

\* Where control goes once the entries of the current feed are exhausted:
\* the next feed of the category, else the first feed of the next category,
\* else phase 2.
AfterFeed ==
    IF feed_idx < Len(RSS_FEEDS[cat_idx].feeds)
    THEN [pc |-> "parse", cat_idx |-> cat_idx, feed_idx |-> feed_idx + 1]
    ELSE IF cat_idx < Len(RSS_FEEDS)
    THEN [pc |-> "parse", cat_idx |-> cat_idx + 1, feed_idx |-> 1]
    ELSE Phase2Entry

GoAfterFeed ==
    /\ pc' = AfterFeed.pc
    /\ cat_idx' = AfterFeed.cat_idx
    /\ feed_idx' = AfterFeed.feed_idx
    /\ search_idx' = IF AfterFeed.pc = "sam_search" THEN 1 ELSE search_idx
    /\ entries' = <<>>
    /\ entry_idx' = 0

\* The loop of line 430 staying on the entry, to analyze it again.
NextEntryAgain == UNCHANGED <<pc, cat_idx, feed_idx, search_idx, entries, entry_idx>>

\* The end of one iteration of the loop of line 430.
NextEntry ==
    IF entry_idx < Len(entries)
    THEN /\ entry_idx' = entry_idx + 1
         /\ UNCHANGED <<pc, cat_idx, feed_idx, search_idx, entries>>
    ELSE GoAfterFeed

(***************************************************************************)
(* Phase 1 (lines 423-461).                                                *)
(***************************************************************************)
\* Lines 426-430: the feed is parsed and the loop over its first
\* ENTRIES_PER_FEED entries begins.
ParseFeed ==
    /\ pc = "parse"
    /\ \E n \in 0..(ENTRIES_PER_FEED + 1) :
         LET feed_entries == FeedEntries(cat_idx, feed_idx, n)
             kept == SubSeq(feed_entries, 1, Min(n, ENTRIES_PER_FEED))
         IN  /\ Len(kept) <= budget
             /\ budget' = budget - Len(kept)
             /\ IF kept = <<>>
                THEN GoAfterFeed
                ELSE /\ entries' = kept
                     /\ entry_idx' = 1
                     /\ pc' = "entry"
                     /\ UNCHANGED <<cat_idx, feed_idx, search_idx>>
    /\ UNCHANGED <<sam_api_key, todays_top_picks, all_scored_articles, seen_ids,
                   opportunities, raw_opps, opp_idx, scored_opportunities,
                   all_scored_opportunities, run_logs, clock, files, email,
                   analyzer_calls, sam_responses, call, ret>>

\* The classification with ">" in place of ">=".
IsHitStrict(composite) == composite > RELEVANCE_THRESHOLD

\* Lines 457 and 490: the classification of a composite score.
IsHit(composite) == composite >= RELEVANCE_THRESHOLD

\* Lines 444-454: the record of a scored article.
ArticleRecord(entry, feed_name, analysis, llm_score, keyword_results, composite) ==
    [title |-> entry.title,
     link |-> entry.link,
     score |-> composite,
     llm_score |-> llm_score,
     keyword_score |-> keyword_results.keyword_score,
     matched_keywords |-> keyword_results.matched_keywords,
     summary |-> Get(analysis, "summary", "No summary available."),
     category |-> Get(analysis, "category", "Other"),
     source |-> feed_name]

\* Lines 431-461: one iteration of the loop over the entries of a feed. The
\* analyzer is called; a false result skips the entry; a result that is not
\* a dict has no .get, and the AttributeError ends the script; otherwise the
\* entry is scored, recorded, and classified.
ProcessEntry ==
    /\ pc = "entry"
    /\ LET entry == entries[entry_idx]
           feed_name == RSS_FEEDS[cat_idx].feeds[feed_idx]
       IN  \E analysis \in AnalysisResults :
             /\ analyzer_calls' = Append(analyzer_calls,
                                         [kind |-> "article", item |-> entry,
                                          analysis |-> analysis])
             /\ IF ~Truthy(analysis)
                THEN /\ NextEntry
                     /\ UNCHANGED <<all_scored_articles, todays_top_picks>>
                ELSE IF analysis.kind # "dict"
                THEN /\ pc' = "crashed"
                     /\ UNCHANGED <<cat_idx, feed_idx, search_idx, entries, entry_idx,
                                    all_scored_articles, todays_top_picks>>
                ELSE LET llm_score == Get(analysis.value, "score", 0)
                         keyword_results == ScanResults[ScanInput(entry.title, entry.snippet)]
                         composite == compute_composite_score(
                                          llm_score, keyword_results.keyword_score)
                         article_record == ArticleRecord(entry, feed_name, analysis.value,
                                               llm_score, keyword_results, composite)
                     IN  /\ all_scored_articles' =
                                Append(all_scored_articles, article_record)
                         /\ todays_top_picks' =
                                IF IsHit(composite)
                                THEN Append(todays_top_picks, article_record)
                                ELSE todays_top_picks
                         /\ NextEntry
    /\ UNCHANGED <<sam_api_key, seen_ids, opportunities, raw_opps, opp_idx,
                   scored_opportunities, all_scored_opportunities, run_logs, clock,
                   files, email, sam_responses, budget, call, ret>>

(***************************************************************************)
(* fetch_sam_opportunities (lines 166-230).                                *)
(***************************************************************************)
\* f"https://sam.gov/opp/{notice_id}/view"
OpportunityLink(notice_id) == <<"https://sam.gov/opp/", notice_id, "/view">>

\* Lines 220-227: the dict built from one raw listing.
OpportunityRecord(opp, notice_id) ==
    [title |-> Get(opp, "title", Untitled),
     solicitationNumber |-> Get(opp, "solicitationNumber", "N/A"),
     naicsCode |-> Get(opp, "naicsCode", "N/A"),
     type |-> Get(opp, "type", "N/A"),
     responseDeadLine |-> Get(opp, "responseDeadLine", "N/A"),
     link |-> OpportunityLink(notice_id)]

\* DedupLoop without the seen_ids.add of line 218.
RECURSIVE DedupLoopNoAdd(_, _, _, _)
DedupLoopNoAdd(listings, i, seen, opps) ==
    IF i > Len(listings)
    THEN [seen_ids |-> seen, opportunities |-> opps]
    ELSE LET opp == listings[i]
             notice_id == Get(opp, "noticeId", "")
         IN  IF notice_id \in seen
             THEN DedupLoopNoAdd(listings, i + 1, seen, opps)
             ELSE DedupLoopNoAdd(listings, i + 1, seen,
                                 Append(opps, OpportunityRecord(opp, notice_id)))

\* Lines 214-227: the loop over the listings of one response, from listing i
\* on, with seen_ids and opportunities as they stand.
RECURSIVE DedupLoop(_, _, _, _)
DedupLoop(listings, i, seen, opps) ==
    IF i > Len(listings)
    THEN [seen_ids |-> seen, opportunities |-> opps]
    ELSE LET opp == listings[i]
             notice_id == Get(opp, "noticeId", "")
         IN  IF notice_id \in seen
             THEN DedupLoop(listings, i + 1, seen, opps)
             ELSE DedupLoop(listings, i + 1, seen \cup {notice_id},
                            Append(opps, OpportunityRecord(opp, notice_id)))

\* What one search may come back with: an exception inside the try (network
\* error, HTTP error status, a body that is not JSON), a JSON value that is
\* not an object, or a JSON object with or without opportunitiesData.
SamError == [kind |-> "error", data |-> EmptyDict]

SamNotObject == [kind |-> "list", data |-> EmptyDict]

SamObject(d) == [kind |-> "dict", data |-> d]

SamResponses(n) ==
    {SamError, SamNotObject, SamObject(EmptyDict)}
    \cup {SamObject([opportunitiesData |-> l]) : l \in SeqsUpTo(RawOpportunities, n)}

\* GoAfterFetch with the fetched list handed over last-seen first.
GoAfterFetchReversed(opps) ==
    /\ raw_opps' = [i \in DOMAIN opps |-> opps[Len(opps) + 1 - i]]
    /\ IF opps = <<>>
       THEN pc' = "save" /\ opp_idx' = 0
       ELSE pc' = "opp" /\ opp_idx' = 1

\* Where control goes when fetch_sam_opportunities returns opps (lines
\* 469-470, 499).
GoAfterFetch(opps) ==
    /\ raw_opps' = opps
    /\ IF opps = <<>>
       THEN pc' = "save" /\ opp_idx' = 0
       ELSE pc' = "opp" /\ opp_idx' = 1

\* The end of one iteration of the loop of line 204: the next search, or
\* after the last one the return of line 230 with opps.
NextSearch(opps) ==
    IF search_idx < Len(SEARCHES)
    THEN /\ search_idx' = search_idx + 1
         /\ UNCHANGED <<pc, raw_opps, opp_idx>>
    ELSE /\ search_idx' = 0
         /\ GoAfterFetch(opps)

\* The except clause with "return opportunities" in place of "continue".
ExceptReturn ==
    /\ search_idx' = 0
    /\ GoAfterFetch(opportunities)
    /\ UNCHANGED <<seen_ids, opportunities, budget>>

\* Lines 210-212: the except clause prints the error and continues with the
\* next search; nothing is added to seen_ids or opportunities.
ExceptContinue ==
    /\ NextSearch(opportunities)
    /\ UNCHANGED <<seen_ids, opportunities, budget>>

\* Lines 204-230: one iteration of the loop over the searches, and the
\* return after the last one. An exception inside the try is caught;
\* data.get on a value that is not a dict raises outside the try and ends
\* the script.
SamSearch ==
    /\ pc = "sam_search"
    /\ \E resp \in SamResponses(budget) :
         LET listings == IF resp.kind = "dict"
                         THEN Get(resp.data, "opportunitiesData", <<>>)
                         ELSE <<>>
             loop == DedupLoop(listings, 1, seen_ids, opportunities)
         IN  /\ sam_responses' =
                    Append(sam_responses,
                           [kind |-> resp.kind, listings |-> listings])
             /\ IF resp.kind = "error"
                THEN ExceptContinue
                ELSE IF resp.kind = "list"
                THEN /\ pc' = "crashed"
                     /\ UNCHANGED <<search_idx, seen_ids, opportunities, raw_opps,
                                    opp_idx, budget>>
                ELSE /\ budget' = budget - Len(listings)
                     /\ seen_ids' = loop.seen_ids
                     /\ opportunities' = loop.opportunities
                     /\ NextSearch(loop.opportunities)
    /\ UNCHANGED <<sam_api_key, cat_idx, feed_idx, entries, entry_idx,
                   todays_top_picks, all_scored_articles, scored_opportunities,
                   all_scored_opportunities, run_logs, clock, files, email,
                   analyzer_calls, call, ret>>

(***************************************************************************)
(* Phase 2 (lines 470-494).                                                *)
(***************************************************************************)
\* The end of one iteration of the loop of line 470.
NextOpportunity ==
    IF opp_idx < Len(raw_opps)
    THEN opp_idx' = opp_idx + 1 /\ pc' = pc
    ELSE opp_idx' = 0 /\ pc' = "save"

\* Lines 480-487: {**opp, **analysis, "score": ..., ...}.
OpportunityScored(opp, analysis, llm_score, keyword_results, composite) ==
    Merge(Merge(opp, analysis),
          [score |-> composite,
           llm_score |-> llm_score,
           keyword_score |-> keyword_results.keyword_score,
           matched_keywords |-> keyword_results.matched_keywords])

\* Lines 471-494: one iteration of the loop over the fetched opportunities.
ProcessOpportunity ==
    /\ pc = "opp"
    /\ LET opp == raw_opps[opp_idx]
       IN  \E analysis \in AnalysisResults :
             /\ analyzer_calls' = Append(analyzer_calls,
                                         [kind |-> "opportunity", item |-> opp,
                                          analysis |-> analysis])
             /\ IF ~Truthy(analysis)
                THEN /\ NextOpportunity
                     /\ UNCHANGED <<all_scored_opportunities, scored_opportunities>>
                ELSE IF analysis.kind # "dict"
                THEN /\ pc' = "crashed"
                     /\ UNCHANGED <<opp_idx, all_scored_opportunities,
                                    scored_opportunities>>
                ELSE LET llm_score == Get(analysis.value, "score", 0)
                         keyword_results == ScanResults[ScanInput(opp.title, <<>>)]
                         composite == compute_composite_score(
                                          llm_score, keyword_results.keyword_score)
                         opp_record == OpportunityScored(opp, analysis.value, llm_score,
                                                         keyword_results, composite)
                     IN  /\ all_scored_opportunities' =
                                Append(all_scored_opportunities, opp_record)
                         /\ scored_opportunities' =
                                IF IsHit(composite)
                                THEN Append(scored_opportunities, opp_record)
                                ELSE scored_opportunities
                         /\ NextOpportunity
    /\ UNCHANGED <<sam_api_key, cat_idx, feed_idx, entries, entry_idx,
                   todays_top_picks, all_scored_articles, search_idx, seen_ids,
                   opportunities, raw_opps, run_logs, clock, files, email,
                   sam_responses, budget, call, ret>>

(***************************************************************************)
(* Phase 3 (lines 498-500).                                                *)
(***************************************************************************)
\* The clock is read to the half second; the file name keeps whole seconds.
TicksPerSecond == 2

\* Line 389: datetime.now().strftime("%Y-%m-%d_%H%M%S"), the reading cut to
\* the second.
Strftime(now) == now \div TicksPerSecond

\* Line 390: f"output/run_{timestamp}.json".
RunLogPath(timestamp) == <<"output/run_", timestamp, ".json">>

\* The output directory with the file at filepath holding content.
WriteFile(fs, filepath, content) ==
    [f \in DOMAIN fs \cup {filepath} |-> IF f = filepath THEN content ELSE fs[f]]

\* The document narrowed to the hits.
LogDataHitsOnly(run_timestamp, all_articles, all_opportunities, hit_articles, hit_opportunities) ==
    [run_timestamp |-> run_timestamp,
     config |-> [model |-> "llama3.2",
                 relevance_threshold |-> RELEVANCE_THRESHOLD,
                 entries_per_feed |-> ENTRIES_PER_FEED,
                 keyword_tiers |-> KEYWORD_TIERS,
                 title_multiplier |-> TITLE_MULTIPLIER],
     summary |-> [articles_scored |-> Len(all_articles),
                  articles_hits |-> Len(hit_articles),
                  opportunities_scored |-> Len(all_opportunities),
                  opportunities_hits |-> Len(hit_opportunities)],
     articles |-> hit_articles,
     opportunities |-> hit_opportunities]

\* Lines 392-409: the document save_run_log writes.
LogData(run_timestamp, all_articles, all_opportunities, hit_articles, hit_opportunities) ==
    [run_timestamp |-> run_timestamp,
     config |-> [model |-> "llama3.2",
                 relevance_threshold |-> RELEVANCE_THRESHOLD,
                 entries_per_feed |-> ENTRIES_PER_FEED,
                 keyword_tiers |-> KEYWORD_TIERS,
                 title_multiplier |-> TITLE_MULTIPLIER],
     summary |-> [articles_scored |-> Len(all_articles),
                  articles_hits |-> Len(hit_articles),
                  opportunities_scored |-> Len(all_opportunities),
                  opportunities_hits |-> Len(hit_opportunities)],
     articles |-> all_articles,
     opportunities |-> all_opportunities]

(***************************************************************************)
(* json.dump(log_data, f, indent=2, default=str) (line 412): the length of *)
(* the text it writes. The text is ASCII (ensure_ascii), so characters are *)
(* bytes.                                                                  *)
(***************************************************************************)
Max(a, b) == IF a >= b THEN a ELSE b

\* The sum of the values of a function with a finite domain.
RECURSIVE SumFn(_)
SumFn(f) ==
    IF DOMAIN f = {} THEN 0
    ELSE LET k == CHOOSE k \in DOMAIN f : TRUE
         IN  f[k] + SumFn([j \in DOMAIN f \ {k} |-> f[j]])

\* An int in decimal.
RECURSIVE IntLen(_)
IntLen(n) ==
    IF n < 0 THEN 1 + IntLen(-n)
    ELSE IF n < 10 THEN 1
    ELSE 1 + IntLen(n \div 10)

\* keyword_score, held in tenths: min(10, ...) of line 151 yields the int 10
\* ("10") or a float below it, which round(..., 1) leaves with one decimal
\* ("8.3", "0.0").
FloatLen(tenths) == IF tenths = 100 THEN 2 ELSE 3

\* One character inside a JSON string (ensure_ascii): a quote or a backslash
\* is escaped with a backslash, and so are backspace, tab, newline, form
\* feed and carriage return (\b \t \n \f \r), under their names or as the
\* characters a string holds; any other character outside space to tilde is
\* written \uXXXX (its name here has six characters too), one outside the
\* basic plane as two of these.
CharLen(c) ==
    IF c \in {"\"", "\\", "\t", "\n", "\f", "\r"} THEN 2
    ELSE IF c \in {Chr(8), Chr(9), Chr(10), Chr(12), Chr(13)} THEN 2
    ELSE IF Len(c) = 1 \/ c = Chr(96) THEN 1
    ELSE IF Len(c) = 6 THEN 6
    ELSE 12

\* A text (a tuple of characters) between its quotes.
TextLen(text) == 2 + SumFn([i \in DOMAIN text |-> CharLen(text[i])])

\* The characters of a string (its quotes not counted).
StrChars(str) == SumFn([i \in 1..Len(str) |-> CharLen(SubSeq(str, i, i))])

\* A string between its quotes.
StrLen(str) == 2 + StrChars(str)

\* A link between its quotes: the link of an entry (feed and position) or
\* of an opportunity (the three parts of line 226), its parts put together.
LinkLen(link) ==
    IF Len(link) = 2 THEN 2 + StrChars(link[1]) + IntLen(link[2])
    ELSE 2 + StrChars(link[1]) + StrChars(link[2]) + StrChars(link[3])

\* run_timestamp between its quotes: isoformat() leaves the microseconds
\* out when they are 0, that is at a reading on the second.
IsoformatLen(now) == IF now % TicksPerSecond = 0 THEN 2 + 19 ELSE 2 + 26

\* A dict or a list at a nesting level with n items whose texts (the keys
\* of a dict not counted) have the total length: the bracket, every item on
\* a line of its own indented by two spaces a level, commas between, and
\* the closing bracket on its own line; "{}" or "[]" when empty.
ContainerLen(level, n, total) ==
    IF n = 0 THEN 2
    ELSE 1 + n * (1 + 2 * (level + 1)) + (n - 1) + total + 1 + 2 * level + 1

\* A key of a dict with its quotes and ": ".
KeyLen(key) == StrLen(key) + 2

\* One matched keyword (lines 137-141 and 145-149), in the list of a record.
MatchLen(m) ==
    ContainerLen(4, 3, KeyLen("keyword") + TextLen(m.keyword)
                       + KeyLen("weight") + IntLen(m.weight)
                       + KeyLen("location") + StrLen(m.location))

\* The value under one key of a scored record.
ValueLen(key, value) ==
    CASE key \in {"score", "llm_score"} -> IntLen(value)
      [] key = "keyword_score" -> FloatLen(value)
      [] key = "title" -> TextLen(value)
      [] key = "link" -> LinkLen(value)
      [] key = "matched_keywords" ->
            ContainerLen(3, Len(value), SumFn([i \in DOMAIN value |-> MatchLen(value[i])]))
      [] OTHER -> StrLen(value)

\* One scored record, in the list "articles" or "opportunities".
RecordLen(record) ==
    ContainerLen(2, Cardinality(DOMAIN record),
                 SumFn([k \in DOMAIN record |-> KeyLen(k) + ValueLen(k, record[k])]))

\* A list of scored records.
RecordsLen(records) ==
    ContainerLen(1, Len(records), SumFn([i \in DOMAIN records |-> RecordLen(records[i])]))

\* "keyword_tiers": every keyword with its weight.
TiersLen(tiers) ==
    ContainerLen(2, Len(tiers),
                 SumFn([i \in DOMAIN tiers |->
                           TextLen(tiers[i].keyword) + 2 + IntLen(tiers[i].weight)]))

\* "config" (lines 394-400).
ConfigLen(config) ==
    ContainerLen(1, 5, KeyLen("model") + StrLen(config.model)
                       + KeyLen("relevance_threshold") + IntLen(config.relevance_threshold)
                       + KeyLen("entries_per_feed") + IntLen(config.entries_per_feed)
                       + KeyLen("keyword_tiers") + TiersLen(config.keyword_tiers)
                       + KeyLen("title_multiplier") + IntLen(config.title_multiplier))

\* "summary" (lines 401-406).
SummaryLen(summary) ==
    ContainerLen(1, 4, SumFn([k \in DOMAIN summary |-> KeyLen(k) + IntLen(summary[k])]))

\* The length of the text of the whole document.
DocLen(log_data) ==
    ContainerLen(0, 5, KeyLen("run_timestamp") + IsoformatLen(log_data.run_timestamp)
                       + KeyLen("config") + ConfigLen(log_data.config)
                       + KeyLen("summary") + SummaryLen(log_data.summary)
                       + KeyLen("articles") + RecordsLen(log_data.articles)
                       + KeyLen("opportunities") + RecordsLen(log_data.opportunities))

(***************************************************************************)
(* The content of a file: the pieces of documents it is made of, first to  *)
(* last. A piece is the text of a document from an offset on, lying in the *)
(* file at the same offset: up to where the next piece starts, or for the  *)
(* last piece to the end of its document. A file written once holds one    *)
(* piece, the whole document.                                              *)
(***************************************************************************)
Piece(log_data, from) == [doc |-> log_data, from |-> from]

\* The text json.dump produces for the document.
JsonDump(log_data) == <<Piece(log_data, 0)>>

\* Where piece i of a content ends.
PieceEnd(content, i) ==
    IF i < Len(content) THEN content[i + 1].from ELSE DocLen(content[i].doc)

\* Line 411: open(filepath, "w") creates the file, or empties the one that
\* is there; the position of the new handle is 0.
Open(fs, filepath) == WriteFile(fs, filepath, <<>>)

\* The content after the text of a document is written at position 0 of a
\* file that was not opened for appending: what lay beyond the end of the
\* text stays.
Overwrite(content, log_data) ==
    LET n == DocLen(log_data)
        beyond == {i \in DOMAIN content : PieceEnd(content, i) > n}
        first == Len(content) - Cardinality(beyond)
    IN  JsonDump(log_data)
        \o [j \in 1..Cardinality(beyond) |->
               Piece(content[first + j].doc, Max(content[first + j].from, n))]

\* Line 412 and the end of the with block: json.dump hands the text to the
\* buffer of the handle, and closing the handle writes it at the handle's
\* position, 0. (One write: the documents of this model are shorter than
\* the buffer, 8192 bytes.)
DumpAndClose(fs, filepath, log_data) ==
    WriteFile(fs, filepath, Overwrite(fs[filepath], log_data))

\* Lines 388-414: save_run_log run without interruption, with the output
\* directory as it stands and the two readings of the clock (line 389 for
\* the file name, line 393 for run_timestamp): the path, the document, and
\* the directory afterwards.
save_run_log(fs, now1, now2, all_articles, all_opportunities, hit_articles, hit_opportunities) ==
    LET filepath == RunLogPath(Strftime(now1))
        log_data == LogData(now2, all_articles, all_opportunities, hit_articles,
                            hit_opportunities)
    IN  [filepath |-> filepath, log_data |-> log_data,
         files |-> DumpAndClose(Open(fs, filepath), filepath, log_data)]

\* Line 499: the script saves the run log of this run.
SaveRunLog ==
    /\ pc = "save"
    /\ \E now1 \in clock..MaxClock :
         \E now2 \in now1..MaxClock :
           LET saved == save_run_log(files, now1, now2, all_scored_articles,
                                     all_scored_opportunities, todays_top_picks,
                                     scored_opportunities)
           IN  /\ files' = saved.files
               /\ run_logs' = Append(run_logs, saved.log_data)
               /\ clock' = now2
    /\ pc' = "email"
    /\ UNCHANGED <<sam_api_key, cat_idx, feed_idx, entries, entry_idx,
                   todays_top_picks, all_scored_articles, search_idx, seen_ids,
                   opportunities, raw_opps, opp_idx, scored_opportunities,
                   all_scored_opportunities, email, analyzer_calls, sam_responses,
                   budget, call, ret>>

\* Lines 349-358: the digest indexes these keys of every hit opportunity.
\* The record of lines 220-227 has the first six and line 482 adds score;
\* summary is there only when the analyzer's answer has it.
DigestKeys == {"score", "link", "title", "solicitationNumber", "naicsCode", "type",
               "responseDeadLine", "summary"}

\* Can the loop of lines 349-358 format every opportunity? (The loop of
\* lines 338-344 always can: the record of lines 444-454 has every key it
\* indexes.)
Composable(opps) == \A i \in DOMAIN opps : DigestKeys \subseteq DOMAIN opps[i]

\* Line 500 and lines 325-373: send_email is given the two hit lists; with
\* both empty it returns at once. Otherwise the digest is composed, before
\* the try of line 366: an opportunity without one of the keys raises
\* KeyError, which nothing catches, and the script ends there; else the SMTP
\* delivery succeeds or fails (the failure is caught and printed).
SendEmail ==
    /\ pc = "email"
    /\ IF todays_top_picks = <<>> /\ scored_opportunities = <<>>
       THEN /\ email' = [status |-> "skipped", articles |-> todays_top_picks,
                         opportunities |-> scored_opportunities]
            /\ pc' = "done"
       ELSE IF ~Composable(scored_opportunities)
       THEN /\ email' = [status |-> "raised", articles |-> todays_top_picks,
                         opportunities |-> scored_opportunities]
            /\ pc' = "crashed"
       ELSE /\ \E status \in {"sent", "failed"} :
                 email' = [status |-> status, articles |-> todays_top_picks,
                           opportunities |-> scored_opportunities]
            /\ pc' = "done"
    /\ UNCHANGED <<sam_api_key, cat_idx, feed_idx, entries, entry_idx,
                   todays_top_picks, all_scored_articles, search_idx, seen_ids,
                   opportunities, raw_opps, opp_idx, scored_opportunities,
                   all_scored_opportunities, run_logs, clock, files, analyzer_calls,
                   sam_responses, budget, call, ret>>

Next ==
    \/ ParseFeed
    \/ ProcessEntry
    \/ SamSearch
    \/ ProcessOpportunity
    \/ SaveRunLog
    \/ SendEmail

Spec == Init /\ [][Next]_vars

(***************************************************************************)
(* scan_keywords on its own: every title and snippet of at most MaxWords   *)
(* words of the vocabulary together.                                       *)
(***************************************************************************)
WordSeqs == SeqsUpTo(Vocabulary, MaxWords)

InitScan ==
    /\ pc = "scan"
    /\ sam_api_key = FALSE
    /\ InitPipeline
    /\ \E tw \in WordSeqs, sw \in WordSeqs :
         /\ Len(tw) + Len(sw) <= MaxWords
         /\ call = [title |-> JoinWords(tw), snippet |-> JoinWords(sw)]
    /\ ret = EmptyDict

ScanCall ==
    /\ pc = "scan"
    /\ ret' = scan_keywords(call.title, call.snippet)
    /\ pc' = "scanned"
    /\ UNCHANGED <<sam_api_key, pipeline_vars, call>>

NextScan == ScanCall

SpecScan == InitScan /\ [][NextScan]_vars

(***************************************************************************)
(* compute_composite_score on its own: every llm_score the rubric allows   *)
(* (0-10) and every keyword_score from 0.0 to 10.0 in steps of 0.1.        *)
(***************************************************************************)
InitCombine ==
    /\ pc = "combine"
    /\ sam_api_key = FALSE
    /\ InitPipeline
    /\ \E llm_score \in 0..10, keyword_score \in 0..100 :
         call = [llm_score |-> llm_score, keyword_score |-> keyword_score]
    /\ ret = EmptyDict

CombineCall ==
    /\ pc = "combine"
    /\ ret' = [composite |-> compute_composite_score(call.llm_score, call.keyword_score)]
    /\ pc' = "combined"
    /\ UNCHANGED <<sam_api_key, pipeline_vars, call>>

NextCombine == CombineCall

SpecCombine == InitCombine /\ [][NextCombine]_vars

(***************************************************************************)
(* Two executions of the script that share the output directory and the    *)
(* clock, each at line 499 with the lists it has built. save_run_log is    *)
(* not atomic: an execution reads the clock (line 389), reads it again     *)
(* (line 393), opens the file (line 411) and writes it (line 412), and the *)
(* other execution may run between any two of these.                       *)
(***************************************************************************)
Runs == {"first", "second"}

\* The record of lines 440-454 for the first entry of the first feed when
\* the analyzer gives it the score.
RunArticle(score) ==
    LET entry == FeedEntry(1, 1, 1)
        analysis == [score |-> score, summary |-> "Two sentences.",
                     category |-> "Maritime"]
        keyword_results == ScanResults[ScanInput(entry.title, entry.snippet)]
        composite == compute_composite_score(score, keyword_results.keyword_score)
    IN  ArticleRecord(entry, RSS_FEEDS[1].feeds[1], analysis, score, keyword_results,
                      composite)

\* The arguments of save_run_log after a run that scored this list of
\* articles and no opportunity (lines 457-459, 499).
RunOutcome(all_articles) ==
    LET IsHitRecord(record) == IsHit(record.score)
    IN  [all_articles |-> all_articles,
         all_opportunities |-> <<>>,
         hit_articles |-> SelectSeq(all_articles, IsHitRecord),
         hit_opportunities |-> <<>>]

\* Nothing scored; one article scored and missed; one article scored and hit.
RunOutcomes == {RunOutcome(<<>>), RunOutcome(<<RunArticle(0)>>),
                RunOutcome(<<RunArticle(10)>>)}

\* The locals of save_run_log before line 389.
NotSaved == [filepath |-> <<>>, log_data |-> EmptyDict]

InitRuns ==
    /\ pc = [e \in Runs |-> "save"]
    /\ sam_api_key = FALSE
    /\ InitPipeline
    /\ call \in [Runs -> RunOutcomes]
    /\ ret = [e \in Runs |-> NotSaved]

\* What the steps of save_run_log leave alone.
RunUnchanged ==
    UNCHANGED <<sam_api_key, cat_idx, feed_idx, entries, entry_idx, todays_top_picks,
                all_scored_articles, search_idx, seen_ids, opportunities, raw_opps,
                opp_idx, scored_opportunities, all_scored_opportunities, email,
                analyzer_calls, sam_responses, budget, call>>

\* Lines 388-390 in execution e: the clock is read and gives the file name.
RunTimestamp(e) ==
    /\ pc[e] = "save"
    /\ \E now \in clock..MaxClock :
         /\ clock' = now
         /\ ret' = [ret EXCEPT ![e].filepath = RunLogPath(Strftime(now))]
    /\ pc' = [pc EXCEPT ![e] = "log_data"]
    /\ UNCHANGED <<files, run_logs>>
    /\ RunUnchanged

\* Lines 392-409 in execution e: the clock is read again and the document
\* is built.
RunLogData(e) ==
    /\ pc[e] = "log_data"
    /\ \E now \in clock..MaxClock :
         /\ clock' = now
         /\ ret' = [ret EXCEPT ![e].log_data =
                        LogData(now, call[e].all_articles, call[e].all_opportunities,
                                call[e].hit_articles, call[e].hit_opportunities)]
    /\ pc' = [pc EXCEPT ![e] = "open"]
    /\ UNCHANGED <<files, run_logs>>
    /\ RunUnchanged

\* Line 411 in execution e: the file is created or emptied.
RunOpen(e) ==
    /\ pc[e] = "open"
    /\ files' = Open(files, ret[e].filepath)
    /\ pc' = [pc EXCEPT ![e] = "dump"]
    /\ UNCHANGED <<clock, ret, run_logs>>
    /\ RunUnchanged

\* Line 412 and the end of the with block in execution e: the document is
\* written at the start of the file.
RunDump(e) ==
    /\ pc[e] = "dump"
    /\ files' = DumpAndClose(files, ret[e].filepath, ret[e].log_data)
    /\ run_logs' = Append(run_logs, ret[e].log_data)
    /\ pc' = [pc EXCEPT ![e] = "saved"]
    /\ UNCHANGED <<clock, ret>>
    /\ RunUnchanged

NextRuns ==
    \E e \in Runs :
        \/ RunTimestamp(e)
        \/ RunLogData(e)
        \/ RunOpen(e)
        \/ RunDump(e)

SpecRuns == InitRuns /\ [][NextRuns]_vars

(***************************************************************************)
(* Properties of scan_keywords, under SpecScan.                            *)
(***************************************************************************)
RECURSIVE SumUpTo(_, _)
SumUpTo(f, n) == IF n = 0 THEN 0 ELSE f[n] + SumUpTo(f, n - 1)

\* The raw points the contract gives keyword i of the table: twice the
\* weight for a title match, else the weight for a body match, else nothing.
ContractPoints(i, title, snippet) ==
    IF PatternSearch(KEYWORD_TIERS[i].keyword, title) THEN KEYWORD_TIERS[i].weight * 2
    ELSE IF PatternSearch(KEYWORD_TIERS[i].keyword, snippet) THEN KEYWORD_TIERS[i].weight
    ELSE 0

ContractRawPoints(title, snippet) ==
    SumUpTo([i \in DOMAIN KEYWORD_TIERS |-> ContractPoints(i, title, snippet)],
            Len(KEYWORD_TIERS))

\* tenths is min(10, raw / 6 * 10) rounded to one decimal: no further than
\* half a tenth from min(100, 100 * raw / 6).
IsNormalized(tenths, raw) ==
    LET capped == Min(600, 100 * raw)
    IN  6 * tenths - capped \in -3..3

MatchedKeywords(title, snippet) ==
    {i \in DOMAIN KEYWORD_TIERS :
        \/ PatternSearch(KEYWORD_TIERS[i].keyword, title)
        \/ PatternSearch(KEYWORD_TIERS[i].keyword, snippet)}

\* C1: scan_keywords returns min(10, raw_points / 6 * 10) rounded to one
\* decimal, raw_points being the sum over the keywords of weight * 2 for a
\* title match, else weight for a body match; and exactly one match record
\* per matched keyword, located in the title whenever the title matches.
C1_ScanKeywordsContract ==
    pc = "scanned" =>
        LET matched == MatchedKeywords(call.title, call.snippet)
            records == ret.matched_keywords
        IN  /\ IsNormalized(ret.keyword_score, ContractRawPoints(call.title, call.snippet))
            /\ Len(records) = Cardinality(matched)
            /\ \A i \in matched :
                 \E j \in DOMAIN records :
                    /\ records[j].keyword = KEYWORD_TIERS[i].keyword
                    /\ records[j].weight = KEYWORD_TIERS[i].weight
                    /\ (records[j].location = "title")
                         <=> PatternSearch(KEYWORD_TIERS[i].keyword, call.title)
            /\ \A j, k \in DOMAIN records :
                 records[j].keyword = records[k].keyword => j = k

\* A scan in which keywords match both the title and the snippet and the
\* score stays below the cap: two weight-1 title matches, 4 raw points, 6.7.
C1_Witness ==
    /\ pc = "scanned"
    /\ \E i \in DOMAIN KEYWORD_TIERS :
         /\ PatternSearch(KEYWORD_TIERS[i].keyword, call.title)
         /\ PatternSearch(KEYWORD_TIERS[i].keyword, call.snippet)
    /\ Len(ret.matched_keywords) = 2
    /\ ret.keyword_score = 67

\* The tier table with the weight of keyword i raised by one.
RaiseWeight(tiers, i) ==
    [k \in DOMAIN tiers |->
        IF k = i THEN [keyword |-> tiers[k].keyword, weight |-> tiers[k].weight + 1]
        ELSE tiers[k]]

\* C2: keyword_score lies in [0, 10] and does not decrease when a further
\* word is added to the title or to the snippet, when the weight of a
\* matched keyword is raised, or when the body's matches move to the title.
C2_KeywordScoreMonotonic ==
    pc = "scanned" =>
        /\ ret.keyword_score \in 0..100
        /\ \A w \in Vocabulary :
             /\ scan_keywords(call.title \o <<" ">> \o w, call.snippet).keyword_score
                  >= ret.keyword_score
             /\ scan_keywords(call.title, call.snippet \o <<" ">> \o w).keyword_score
                  >= ret.keyword_score
        /\ \A i \in MatchedKeywords(call.title, call.snippet) :
             ScanWithTiers(RaiseWeight(KEYWORD_TIERS, i), call.title,
                           call.snippet).keyword_score >= ret.keyword_score
        /\ scan_keywords(call.title \o <<" ">> \o call.snippet, <<>>).keyword_score
             >= ret.keyword_score

\* A scan with one body match below the cap, whose score rises when the
\* match moves to the title.
C2_Witness ==
    /\ pc = "scanned"
    /\ ret.keyword_score = 33
    /\ \E j \in DOMAIN ret.matched_keywords : ret.matched_keywords[j].location = "snippet"
    /\ scan_keywords(call.title \o <<" ">> \o call.snippet, <<>>).keyword_score = 67

(***************************************************************************)
(* Properties of compute_composite_score, under SpecCombine.               *)
(***************************************************************************)
\* C3: compute_composite_score(0, 10.0) = 4, compute_composite_score(10, 0)
\* = 6, and a keyword_score of 10 gives at least 4 whatever the llm_score.
C3_CompositeFloor ==
    pc = "combined" =>
        /\ (call.llm_score = 0 /\ call.keyword_score = 100) => ret.composite = 4
        /\ (call.llm_score = 10 /\ call.keyword_score = 0) => ret.composite = 6
        /\ call.keyword_score = 100 => ret.composite >= 4

\* The call compute_composite_score(0, 10.0) has returned 4.
C3_Witness ==
    /\ pc = "combined"
    /\ call.llm_score = 0
    /\ call.keyword_score = 100
    /\ ret.composite = 4

\* C4: for llm_score in 0..10 and keyword_score in [0, 10] the composite is
\* an integer in [0, 10], and no larger llm_score (keyword_score) with the
\* same keyword_score (llm_score) gives a smaller composite.
C4_CompositeRangeMonotonic ==
    pc = "combined" =>
        /\ ret.composite \in 0..10
        /\ \A l \in call.llm_score..10 :
             compute_composite_score(l, call.keyword_score) >= ret.composite
        /\ \A k \in call.keyword_score..100 :
             compute_composite_score(call.llm_score, k) >= ret.composite

\* A call in the interior of the range, where each argument can still raise
\* the composite.
C4_Witness ==
    /\ pc = "combined"
    /\ call.llm_score = 5
    /\ call.keyword_score = 50
    /\ ret.composite = 5
    /\ compute_composite_score(6, 50) > 5
    /\ compute_composite_score(5, 75) > 5

(***************************************************************************)
(* Properties of fetch_sam_opportunities, under Spec.                      *)
(***************************************************************************)
\* The listings of all searches so far, in search order.
RECURSIVE FlatListings(_)
FlatListings(n) ==
    IF n = 0 THEN <<>> ELSE FlatListings(n - 1) \o sam_responses[n].listings

AllListings == FlatListings(Len(sam_responses))

\* The notice identifier of a raw listing ("" when it has none) and of a
\* built record (the middle of its link).
ListingId(listing) == IF "noticeId" \in DOMAIN listing THEN listing.noticeId ELSE ""

RecordId(record) == record.link[2]

\* The position of the first listing with the identifier.
FirstListing(id) ==
    CHOOSE k \in DOMAIN AllListings :
        /\ ListingId(AllListings[k]) = id
        /\ \A m \in 1..(k - 1) : ListingId(AllListings[m]) # id

\* fetch_sam_opportunities has returned (line 230).
FetchReturned == sam_api_key /\ search_idx = 0 /\ Len(sam_responses) = Len(SEARCHES)

\* C5: the fetched list has at most one record per notice identifier, each
\* built from the first listing with that identifier and from no later one,
\* in first-seen order; and that list is what the fetch returns.
C5_FirstSeenWins ==
    /\ \A i, j \in DOMAIN opportunities :
         RecordId(opportunities[i]) = RecordId(opportunities[j]) => i = j
    /\ {RecordId(opportunities[i]) : i \in DOMAIN opportunities}
         = {ListingId(AllListings[k]) : k \in DOMAIN AllListings}
    /\ \A i \in DOMAIN opportunities :
         LET first == AllListings[FirstListing(RecordId(opportunities[i]))]
         IN  /\ opportunities[i].title =
                    (IF "title" \in DOMAIN first THEN first.title ELSE Untitled)
             /\ opportunities[i].solicitationNumber =
                    (IF "solicitationNumber" \in DOMAIN first
                     THEN first.solicitationNumber ELSE "N/A")
    /\ \A i, j \in DOMAIN opportunities :
         i < j => FirstListing(RecordId(opportunities[i]))
                    < FirstListing(RecordId(opportunities[j]))
    /\ FetchReturned => raw_opps = opportunities

\* Two searches each returned one listing with the same identifier and
\* different titles; the fetch returned the first search's record alone.
C5_Witness ==
    /\ FetchReturned
    /\ Len(sam_responses[1].listings) = 1
    /\ Len(sam_responses[2].listings) = 1
    /\ ListingId(sam_responses[1].listings[1]) = ListingId(sam_responses[2].listings[1])
    /\ sam_responses[1].listings[1].title # sam_responses[2].listings[1].title
    /\ Len(raw_opps) = 1
    /\ raw_opps[1].title = sam_responses[1].listings[1].title

\* C6: listings without an identifier are never de-duplicated against one
\* another: the returned list has one record per distinct non-empty
\* identifier plus one per listing with an empty identifier.
C6_EmptyIdsDistinct ==
    FetchReturned =>
        Len(raw_opps) =
            Cardinality({ListingId(AllListings[k]) : k \in DOMAIN AllListings} \ {""})
            + Cardinality({k \in DOMAIN AllListings : ListingId(AllListings[k]) = ""})

(***************************************************************************)
(* Properties of the scoring loops and the run log, under Spec.            *)
(***************************************************************************)
IsArticleCall(c) == c.kind = "article"

IsOpportunityCall(c) == c.kind = "opportunity"

\* The analyzer failed or returned no result: None, or an empty object.
Dropped(c) ==
    \/ c.analysis.kind = "None"
    \/ c.analysis.kind = "dict" /\ DOMAIN c.analysis.value = {}

\* The analyzer returned an object with something in it.
Answered(c) == c.analysis.kind = "dict" /\ DOMAIN c.analysis.value # {}

IsAnsweredArticle(c) == IsArticleCall(c) /\ Answered(c)

IsAnsweredOpportunity(c) == IsOpportunityCall(c) /\ Answered(c)

Links(records) == [i \in DOMAIN records |-> records[i].link]

ItemLinks(calls) == [i \in DOMAIN calls |-> calls[i].item.link]

HasLink(records, link) == \E i \in DOMAIN records : records[i].link = link

\* Everything the run has put out: the two lists of scored items, the two
\* hit lists, the lists of the run log and the lists given to send_email.
AllOutput ==
    all_scored_articles \o todays_top_picks \o all_scored_opportunities
    \o scored_opportunities \o email.articles \o email.opportunities
    \o (IF run_logs = <<>> THEN <<>> ELSE run_logs[1].articles \o run_logs[1].opportunities)

C7_State ==
    /\ \A k \in DOMAIN analyzer_calls :
         Dropped(analyzer_calls[k]) => ~HasLink(AllOutput, analyzer_calls[k].item.link)
    /\ Links(all_scored_articles) = ItemLinks(SelectSeq(analyzer_calls, IsAnsweredArticle))
    /\ Links(all_scored_opportunities)
         = ItemLinks(SelectSeq(analyzer_calls, IsAnsweredOpportunity))
    /\ \A k \in DOMAIN run_logs :
         /\ run_logs[k].summary.articles_scored
              = Len(SelectSeq(analyzer_calls, IsAnsweredArticle))
         /\ run_logs[k].summary.opportunities_scored
              = Len(SelectSeq(analyzer_calls, IsAnsweredOpportunity))

\* A step in which the analyzer is called and the item dropped goes on to the
\* next item of the loop, or past the loop after the last item.
C7_Step ==
    (Len(analyzer_calls') = Len(analyzer_calls) + 1
        /\ Dropped(analyzer_calls'[Len(analyzer_calls')]))
    => /\ pc = "entry" =>
            IF entry_idx < Len(entries)
            THEN pc' = "entry" /\ entry_idx' = entry_idx + 1 /\ entries' = entries
            ELSE pc' \in {"parse", "sam_search", "save"}
       /\ pc = "opp" =>
            IF opp_idx < Len(raw_opps)
            THEN pc' = "opp" /\ opp_idx' = opp_idx + 1 /\ raw_opps' = raw_opps
            ELSE pc' = "save"

\* C7: an item for which the analyzer fails or returns no result is dropped:
\* it is in no list of scored items or hits, in no run log and in no digest,
\* the scored counts count the other items only, and the loop goes on with
\* the next item.
C7_FailedItemDropped == []C7_State /\ [][C7_Step]_vars

\* A finished run of two articles: the analyzer failed for one, the other
\* was scored, and the run log counts one article.
C7_Witness ==
    /\ pc = "done"
    /\ Len(analyzer_calls) = 2
    /\ \E k \in DOMAIN analyzer_calls :
         IsArticleCall(analyzer_calls[k]) /\ analyzer_calls[k].analysis.kind = "None"
    /\ Len(all_scored_articles) = 1
    /\ run_logs[1].summary.articles_scored = 1

AtThreshold(record) == record.score >= RELEVANCE_THRESHOLD

\* C8: a scored item is a hit iff its composite is at least
\* RELEVANCE_THRESHOLD: each hit list is the sub-list of the scored list at
\* or above the threshold, and send_email is given the hit lists.
C8_HitIffAtThreshold ==
    /\ RELEVANCE_THRESHOLD = 4
    /\ todays_top_picks = SelectSeq(all_scored_articles, AtThreshold)
    /\ scored_opportunities = SelectSeq(all_scored_opportunities, AtThreshold)
    /\ email.status # "none" =>
         /\ email.articles = SelectSeq(all_scored_articles, AtThreshold)
         /\ email.opportunities = SelectSeq(all_scored_opportunities, AtThreshold)

\* A finished run with a hit exactly at the threshold and a miss (llm_score
\* 3, no keyword, composite 2), the digest sent with the hit only.
C8_Witness ==
    /\ pc = "done"
    /\ email.status = "sent"
    /\ Len(all_scored_articles) = 2
    /\ \E i \in DOMAIN all_scored_articles :
         /\ all_scored_articles[i].score = 2
         /\ all_scored_articles[i].llm_score = 3
         /\ all_scored_articles[i].keyword_score = 0
    /\ Len(email.articles) = 1
    /\ email.articles[1].score = 4

\* The keyword_score scan_keywords gives the item of an analyzer call: title
\* and snippet of an article, title and empty body of an opportunity.
KeywordScoreOf(c) ==
    ScanResults[ScanInput(c.item.title,
                          IF IsArticleCall(c) THEN c.item.snippet ELSE <<>>)].keyword_score

\* The hit list, the run-log list and the digest list an item belongs in.
HitList(c) == IF IsArticleCall(c) THEN todays_top_picks ELSE scored_opportunities

LoggedList(c, log) == IF IsArticleCall(c) THEN log.articles ELSE log.opportunities

DigestList(c) == IF IsArticleCall(c) THEN email.articles ELSE email.opportunities

\* The analyzer returned score 0.
ScoredZero(c) ==
    /\ c.analysis.kind = "dict"
    /\ "score" \in DOMAIN c.analysis.value
    /\ c.analysis.value.score = 0

\* The analyzer call failed.
CallFailed(c) == c.analysis.kind = "None"

\* The analyzer returned an object whose score is in 0..10, or is left out
\* (and read as 0).
ScoredInRange(c) ==
    /\ Answered(c)
    /\ "score" \in DOMAIN c.analysis.value => c.analysis.value.score \in 0..10

\* C9 as written: an item with keyword_score 10 ends the run as a hit, in
\* the digest and in the run log, when the analyzer returns score 0 and
\* when the analyzer call fails.
C9_VisibleWhateverAnalyzer ==
    pc = "done" =>
        \A k \in DOMAIN analyzer_calls :
            LET c == analyzer_calls[k]
            IN  (KeywordScoreOf(c) = 100 /\ (ScoredZero(c) \/ CallFailed(c)))
                => /\ HasLink(HitList(c), c.item.link)
                   /\ HasLink(DigestList(c), c.item.link)
                   /\ HasLink(LoggedList(c, run_logs[1]), c.item.link)

\* C9, amended: an item with keyword_score 10 for which the analyzer returns
\* an object with a score in 0..10 (0 included) or without a score is a hit
\* from the moment it is scored, and is in every run log written and in
\* every hit list handed to send_email (which composes the digest from it,
\* or raises when a hit opportunity has no summary); one for which the
\* analyzer fails or returns no result is in none of these.
C9_VisibleWhenAnswered ==
    \A k \in DOMAIN analyzer_calls :
        LET c == analyzer_calls[k]
        IN  KeywordScoreOf(c) = 100 =>
              /\ ScoredInRange(c) =>
                   /\ HasLink(HitList(c), c.item.link)
                   /\ \A n \in DOMAIN run_logs :
                        HasLink(LoggedList(c, run_logs[n]), c.item.link)
                   /\ email.status # "none" => HasLink(DigestList(c), c.item.link)
              /\ Dropped(c) =>
                   /\ ~HasLink(HitList(c), c.item.link)
                   /\ \A n \in DOMAIN run_logs :
                        ~HasLink(LoggedList(c, run_logs[n]), c.item.link)
                   /\ ~HasLink(DigestList(c), c.item.link)

\* A finished run of two articles with keyword_score 10: the analyzer gave
\* one score 0, and it is in the digest with composite 4; the analyzer call
\* failed for the other, and the digest has one article.
C9_Witness ==
    /\ pc = "done"
    /\ Len(analyzer_calls) = 2
    /\ \A k \in DOMAIN analyzer_calls :
         IsArticleCall(analyzer_calls[k]) /\ KeywordScoreOf(analyzer_calls[k]) = 100
    /\ \E k \in DOMAIN analyzer_calls : ScoredZero(analyzer_calls[k])
    /\ \E k \in DOMAIN analyzer_calls : CallFailed(analyzer_calls[k])
    /\ Len(email.articles) = 1
    /\ email.articles[1].score = 4
    /\ email.articles[1].llm_score = 0

\* Is the record at or above the threshold the log's own configuration names?
RECURSIVE CountAtThreshold(_, _)
CountAtThreshold(records, threshold) ==
    IF records = <<>> THEN 0
    ELSE (IF Head(records).score >= threshold THEN 1 ELSE 0)
         + CountAtThreshold(Tail(records), threshold)

\* C10: a run log lists every scored article and opportunity of the run,
\* hits and misses; its scored counts are the lengths of its lists and its
\* hit counts the numbers of listed items at or above the threshold.
C10_RunLogConsistent ==
    \A n \in DOMAIN run_logs :
        LET log == run_logs[n]
        IN  /\ Links(log.articles) = ItemLinks(SelectSeq(analyzer_calls, IsAnsweredArticle))
            /\ Links(log.opportunities)
                 = ItemLinks(SelectSeq(analyzer_calls, IsAnsweredOpportunity))
            /\ log.articles = all_scored_articles
            /\ log.opportunities = all_scored_opportunities
            /\ log.summary.articles_scored = Len(log.articles)
            /\ log.summary.opportunities_scored = Len(log.opportunities)
            /\ log.summary.articles_hits
                 = CountAtThreshold(log.articles, log.config.relevance_threshold)
            /\ log.summary.opportunities_hits
                 = CountAtThreshold(log.opportunities, log.config.relevance_threshold)
            /\ log.summary.articles_hits <= log.summary.articles_scored
            /\ log.summary.opportunities_hits <= log.summary.opportunities_scored

\* A run log with a missed article and a hit opportunity.
C10_Witness ==
    /\ Len(run_logs) = 1
    /\ run_logs[1].summary.articles_scored = 1
    /\ run_logs[1].summary.articles_hits = 0
    /\ run_logs[1].summary.opportunities_scored = 1
    /\ run_logs[1].summary.opportunities_hits = 1
    /\ run_logs[1].articles[1].score < RELEVANCE_THRESHOLD
    /\ run_logs[1].opportunities[1].score >= RELEVANCE_THRESHOLD

(***************************************************************************)
(* Failing searches, under Spec.                                           *)
(***************************************************************************)
SearchFailed(r) == r.kind = "error"

SearchSucceeded(r) == r.kind = "dict"

\* The listings of the searches that succeeded so far, in search order.
RECURSIVE SucceededListings(_)
SucceededListings(n) ==
    IF n = 0 THEN <<>>
    ELSE SucceededListings(n - 1)
         \o (IF SearchSucceeded(sam_responses[n]) THEN sam_responses[n].listings ELSE <<>>)

\* Control is past fetch_sam_opportunities.
PastFetch == sam_api_key /\ pc \in {"opp", "save", "email", "done"}

C11_State ==
    /\ \A n \in DOMAIN sam_responses :
         SearchFailed(sam_responses[n]) => sam_responses[n].listings = <<>>
    /\ {RecordId(opportunities[i]) : i \in DOMAIN opportunities}
         = {ListingId(SucceededListings(Len(sam_responses))[k]) :
              k \in DOMAIN SucceededListings(Len(sam_responses))}
    /\ PastFetch =>
         /\ Len(sam_responses) = Len(SEARCHES)
         /\ raw_opps = opportunities

\* A step in which a search fails leaves seen_ids and opportunities as they
\* were and goes on to the next search, or returns after the last one.
C11_Step ==
    (Len(sam_responses') = Len(sam_responses) + 1
        /\ SearchFailed(sam_responses'[Len(sam_responses')]))
    => /\ seen_ids' = seen_ids
       /\ opportunities' = opportunities
       /\ IF Len(sam_responses') < Len(SEARCHES)
          THEN pc' = "sam_search" /\ search_idx' = search_idx + 1
          ELSE pc' \in {"opp", "save"} /\ raw_opps' = opportunities

\* C11: a search that fails (network error, HTTP error status, unparsable
\* body) contributes no opportunity, the remaining searches are still run,
\* and the fetch returns the de-duplicated listings of the searches that
\* succeeded; a failing search never ends the fetch early.
C11_FailedSearchSkipped == []C11_State /\ [][C11_Step]_vars

\* The first search failed, the second returned two listings with different
\* identifiers, and the fetch returned both.
C11_Witness ==
    /\ PastFetch
    /\ SearchFailed(sam_responses[1])
    /\ SearchSucceeded(sam_responses[2])
    /\ Len(sam_responses[2].listings) = 2
    /\ Len(raw_opps) = 2

(***************************************************************************)
(* The run record of an execution, under Spec.                             *)
(***************************************************************************)
\* The script has ended: main returned, or an exception nothing catches
\* ended it.
Ended == pc \in {"done", "crashed"}

\* C12: an execution writes exactly one run record, whatever the analyzer
\* and the opportunity source answer (error, timeout, malformed or empty
\* response): never more than one is written, an execution that has ended
\* has written one, and it is the empty record when nothing was scored.
\* (That an execution ends at all is not part of the formula: feedparser.parse
\* at line 426 and smtplib.SMTP_SSL at line 367 are called without a timeout,
\* so the code gives no ground for a fairness condition on those steps.)
C12_RunRecordAlwaysWritten ==
    /\ Len(run_logs) <= 1
    /\ Cardinality(DOMAIN files) <= 1
    /\ Ended => (Len(run_logs) = 1 /\ Cardinality(DOMAIN files) = 1)
    /\ \A n \in DOMAIN run_logs :
         (all_scored_articles = <<>> /\ all_scored_opportunities = <<>>)
         => /\ run_logs[n].articles = <<>>
            /\ run_logs[n].opportunities = <<>>
            /\ run_logs[n].summary = [articles_scored |-> 0, articles_hits |-> 0,
                                      opportunities_scored |-> 0,
                                      opportunities_hits |-> 0]

(***************************************************************************)
(* The run log files of two executions, under SpecRuns.                    *)
(***************************************************************************)
Saved(e) == pc[e] = "saved"

\* C13: each execution writes its run record to a file of its own: two
\* executions that have saved wrote different files, and each file still
\* holds the document its execution wrote.
C13_OwnFile ==
    \A e1, e2 \in Runs :
        (e1 # e2 /\ Saved(e1) /\ Saved(e2))
        => /\ ret[e1].filepath # ret[e2].filepath
           /\ files[ret[e1].filepath] = JsonDump(ret[e1].log_data)

(***************************************************************************)
(* The scores of recorded items, under Spec.                               *)
(***************************************************************************)
\* C14: every item the pipeline records, in a scored list, a hit list, the
\* run log or the digest, has an llm_score that is an integer in 0..10 and
\* a composite score that is an integer in 0..10, whatever result of the
\* analyzer the pipeline accepted.
C14_RecordedScoresInRange ==
    \A i \in DOMAIN AllOutput :
        /\ AllOutput[i].llm_score \in 0..10
        /\ AllOutput[i].score \in 0..10

(***************************************************************************)
(* The order of scoring, under Spec.                                       *)
(***************************************************************************)
\* The feed names in declaration order, category by category.
RECURSIVE DeclaredFeeds(_)
DeclaredFeeds(c) ==
    IF c = 0 THEN <<>> ELSE DeclaredFeeds(c - 1) \o RSS_FEEDS[c].feeds

FeedPosition(feed_name) ==
    CHOOSE n \in DOMAIN DeclaredFeeds(Len(RSS_FEEDS)) :
        DeclaredFeeds(Len(RSS_FEEDS))[n] = feed_name

\* An entry link <<feed, position>> comes before another in the input order.
EntryBefore(l1, l2) ==
    \/ FeedPosition(l1[1]) < FeedPosition(l2[1])
    \/ l1[1] = l2[1] /\ l1[2] < l2[2]

\* sub is seq with some elements left out, the others in the same order.
RECURSIVE IsSubsequence(_, _)
IsSubsequence(sub, seq) ==
    IF sub = <<>> THEN TRUE
    ELSE IF seq = <<>> THEN FALSE
    ELSE IF Head(sub) = Head(seq) THEN IsSubsequence(Tail(sub), Tail(seq))
    ELSE IsSubsequence(sub, Tail(seq))

Items(calls) == [i \in DOMAIN calls |-> calls[i].item]

\* C15: items are scored in the order the collaborators present them and
\* never reordered: the articles are analyzed category by category, feed by
\* feed, entry by entry, and the scored articles are the answered ones in
\* that order; the opportunities are analyzed in de-duplicated order and
\* the scored ones are the answered ones in that order; each hit list is a
\* subsequence of its scored list, and is the list the digest is given;
\* every article is analyzed before any opportunity.
C15_InputOrderKept ==
    LET article_calls == SelectSeq(analyzer_calls, IsArticleCall)
        opportunity_calls == SelectSeq(analyzer_calls, IsOpportunityCall)
    IN  /\ \A j, k \in DOMAIN article_calls :
             j < k => EntryBefore(article_calls[j].item.link, article_calls[k].item.link)
        /\ Links(all_scored_articles)
             = ItemLinks(SelectSeq(analyzer_calls, IsAnsweredArticle))
        /\ IsSubsequence(todays_top_picks, all_scored_articles)
        /\ Len(opportunity_calls) <= Len(opportunities)
        /\ Items(opportunity_calls)
             = SubSeq(opportunities, 1, Len(opportunity_calls))
        /\ Links(all_scored_opportunities)
             = ItemLinks(SelectSeq(analyzer_calls, IsAnsweredOpportunity))
        /\ IsSubsequence(scored_opportunities, all_scored_opportunities)
        /\ \A j, k \in DOMAIN analyzer_calls :
             (IsArticleCall(analyzer_calls[j]) /\ IsOpportunityCall(analyzer_calls[k]))
             => j < k
        /\ email.status # "none" =>
             /\ email.articles = todays_top_picks
             /\ email.opportunities = scored_opportunities

\* A finished run of two articles, both hits, the second with the higher
\* score: the digest lists them in input order, lower score first.
C15_Witness ==
    /\ pc = "done"
    /\ Len(email.articles) = 2
    /\ email.articles[1].score < email.articles[2].score
    /\ EntryBefore(email.articles[1].link, email.articles[2].link)

(***************************************************************************)
(* One analyzer call per item, under Spec.                                 *)
(***************************************************************************)
\* The analyzer returned a value the script cannot read as a result.
Unreadable(c) == c.analysis.kind \notin {"None", "dict"}

ScoredList(c) ==
    IF IsArticleCall(c) THEN all_scored_articles ELSE all_scored_opportunities

C16_State ==
    /\ \A j, k \in DOMAIN analyzer_calls :
         (j # k /\ analyzer_calls[j].kind = analyzer_calls[k].kind)
         => analyzer_calls[j].item.link # analyzer_calls[k].item.link
    /\ \A k \in DOMAIN analyzer_calls :
         LET c == analyzer_calls[k]
         IN  /\ Answered(c) => HasLink(ScoredList(c), c.item.link)
             /\ Dropped(c) => ~HasLink(ScoredList(c), c.item.link)
             /\ Unreadable(c) => (pc = "crashed" /\ k = Len(analyzer_calls))
    /\ pc = "entry" =>
         \A k \in DOMAIN analyzer_calls :
            IsArticleCall(analyzer_calls[k])
            => analyzer_calls[k].item.link # entries[entry_idx].link
    /\ pc = "opp" =>
         \A k \in DOMAIN analyzer_calls :
            IsOpportunityCall(analyzer_calls[k])
            => analyzer_calls[k].item.link # raw_opps[opp_idx].link

\* A step calls the analyzer at most once, for the item the loop is at, and
\* leaves that item behind: the loop is at the next item or past its end,
\* or the script has ended.
C16_Step ==
    /\ Len(analyzer_calls') \in {Len(analyzer_calls), Len(analyzer_calls) + 1}
    /\ SubSeq(analyzer_calls', 1, Len(analyzer_calls)) = analyzer_calls
    /\ Len(analyzer_calls') = Len(analyzer_calls) + 1 =>
         LET c == analyzer_calls'[Len(analyzer_calls')]
         IN  /\ pc \in {"entry", "opp"}
             /\ pc = "entry" =>
                  /\ IsArticleCall(c) /\ c.item = entries[entry_idx]
                  /\ \/ pc' = "entry" /\ entries' = entries /\ entry_idx' = entry_idx + 1
                     \/ pc' \in {"parse", "sam_search", "save", "crashed"}
             /\ pc = "opp" =>
                  /\ IsOpportunityCall(c) /\ c.item = raw_opps[opp_idx]
                  /\ \/ pc' = "opp" /\ raw_opps' = raw_opps /\ opp_idx' = opp_idx + 1
                     \/ pc' \in {"save", "crashed"}

\* C16: within one run the analyzer is called at most once per item and one
\* item at a time: the call, the scan, the combination and the
\* classification of an item are over, or the item is dropped, before the
\* analyzer is called for the next item, and no item, failed or not, is
\* analyzed twice.
C16_OneCallPerItem == []C16_State /\ [][C16_Step]_vars

\* A finished run of an article and an opportunity: the analyzer call for
\* the article failed, the opportunity was scored, and the analyzer was
\* called twice in all.
C16_Witness ==
    /\ pc = "done"
    /\ Len(analyzer_calls) = 2
    /\ IsArticleCall(analyzer_calls[1])
    /\ CallFailed(analyzer_calls[1])
    /\ IsAnsweredOpportunity(analyzer_calls[2])
    /\ all_scored_articles = <<>>
    /\ Len(all_scored_opportunities) = 1

====
